---- MODULE Spec2Model ----
(***************************************************************************)
(* NeuraCity Community Risk Index engine.                                  *)
(*                                                                         *)
(* Numbers.  Python floats are modelled as exact fixed-point rationals:    *)
(*   - a score or an index x in [0,1] is the integer x * Unit              *)
(*     (Unit = 10000, so 0.158 is 1580 and 0.1234 is 1234);                *)
(*   - a factor weight w is the integer w * WeightUnit (0.25 is 250);      *)
(*   - round(x, 3) is round-half-to-even on the exact value, as Python's   *)
(*     round() is on a value that is exactly representable.                *)
(* Coordinates are integers in thousandths of a degree, drawn from a small *)
(* lattice on the equator, where the haversine formula reduces to          *)
(* R * sqrt(dlat^2 + dlng^2) up to a relative error below 1e-8.            *)
(***************************************************************************)
EXTENDS Integers, Sequences, FiniteSets, TLC

VARIABLES
    comp,          \* last call of calculate_composite_risk_index: args and result
    blk,           \* last call of calculate_risk_for_block: args and result
    sm,            \* last call of apply_spatial_smoothing: args and result
    nrm,           \* last call of a factor scoring function: args and result
    risk_blocks,   \* table risk_blocks of the store: a set of rows
    risk_config,   \* table risk_config of the store: config name -> row or NoRow
    req,           \* per handler: the request being served, its locals and position
    clock,         \* the wall clock read by datetime.now()
    risk_history,  \* table risk_history of the store: the rows in insertion order
    cache          \* RISK_INDEX_CACHE: cache key -> cached result

vars == <<comp, blk, sm, nrm, risk_blocks, risk_config, req, clock, risk_history, cache>>

-----------------------------------------------------------------------------
(* Fixed-point arithmetic *)

Unit == 10 * 1000
WeightUnit == 10 * 100

Min(a, b) == IF a <= b THEN a ELSE b
Max(a, b) == IF a >= b THEN a ELSE b
Abs(a) == IF a >= 0 THEN a ELSE 0 - a

\* nearest integer to n / d (d > 0), ties to the even integer; \div is floor division
RoundDiv(n, d) ==
    LET q == n \div d
        r == n % d
    IN  IF 2 * r < d THEN q
        ELSE IF 2 * r > d THEN q + 1
        ELSE IF q % 2 = 0 THEN q ELSE q + 1

\* round(num / den, 3) for den > 0, as a multiple of Unit / 1000
Round3Q(num, den) == 10 * RoundDiv(1000 * num, den)

\* round(x / Unit, 3) for a fixed-point x
Round3(x) == 10 * RoundDiv(x, 10)

RECURSIVE ISqrtIn(_, _, _)
\* the largest k in lo..hi with k * k <= n, by bisection (lo * lo <= n)
ISqrtIn(n, lo, hi) ==
    IF lo >= hi THEN lo
    ELSE LET mid == (lo + hi + 1) \div 2
         IN  IF mid * mid <= n THEN ISqrtIn(n, mid, hi) ELSE ISqrtIn(n, lo, mid - 1)

ISqrt(n) == ISqrtIn(n, 0, Min(n, 46340))

RECURSIVE SumSeq(_)
SumSeq(s) == IF s = <<>> THEN 0 ELSE Head(s) + SumSeq(Tail(s))

\* the value a Python exception is modelled by where a float is expected
Raised == 0 - 1000000

-----------------------------------------------------------------------------
(* RiskConfig *)

DefaultWeights == <<250, 150, 200, 150, 100, 150>>

\* RiskConfig(...) with the dataclass defaults for every field but the weights
ConfigWithWeights(w) ==
    [ crime_weight |-> w[1], blight_weight |-> w[2],
      emergency_response_weight |-> w[3], air_quality_weight |-> w[4],
      heat_exposure_weight |-> w[5], traffic_speed_weight |-> w[6],
      crime_max_incidents |-> 50, blight_max_properties |-> 20,
      emergency_max_minutes |-> 30, air_quality_max_aqi |-> 200,
      heat_exposure_max_celsius |-> 45, traffic_speed_max_mph |-> 65,
      spatial_radius_meters |-> 500, spatial_decay_factor |-> 5000 ]

DEFAULT_CONFIG == ConfigWithWeights(DefaultWeights)

WeightsOf(config) ==
    << config.crime_weight, config.blight_weight, config.emergency_response_weight,
       config.air_quality_weight, config.heat_exposure_weight,
       config.traffic_speed_weight >>

\* a validation that tolerates a weight sum within 10% of 1.0
validate_loose(config) ==
    LET total_weight == SumSeq(WeightsOf(config))
    IN  900 <= total_weight /\ total_weight <= 1100

validate(config) ==
    LET total_weight == SumSeq(WeightsOf(config))
    IN  990 <= total_weight /\ total_weight <= 1010

-----------------------------------------------------------------------------
(* Individual factor scoring functions.  Raw inputs are integers:          *)
(* severity_multiplier in tenths, response times in tenths of a minute,    *)
(* temperatures in degrees Celsius, percentages in percent, speeds in mph. *)

\* round(min(1.0, num / den), 3) for den # 0
MinOneRounded(num, den) ==
    LET n == IF den > 0 THEN num ELSE 0 - num
        d == Abs(den)
    IN  IF n >= d THEN Unit ELSE Round3Q(n, d)

calculate_crime_score(incidents_per_month, severity_multiplier, config) ==
    LET weighted_incidents == incidents_per_month * severity_multiplier
    IN  IF config.crime_max_incidents = 0 THEN Raised
        ELSE MinOneRounded(weighted_incidents, 10 * config.crime_max_incidents)

\* calculate_blight_score with the weights of vacant lots and code violations
\* exchanged
calculate_blight_score_swapped(abandoned_buildings, vacant_lots, code_violations, config) ==
    LET weighted_sum == abandoned_buildings * 3 + code_violations * 1 + vacant_lots * 2
    IN  IF config.blight_max_properties = 0 THEN Raised
        ELSE MinOneRounded(weighted_sum, config.blight_max_properties * 6)

calculate_blight_score(abandoned_buildings, vacant_lots, code_violations, config) ==
    LET weighted_sum == abandoned_buildings * 3 + code_violations * 2 + vacant_lots * 1
    IN  IF config.blight_max_properties = 0 THEN Raised
        ELSE MinOneRounded(weighted_sum, config.blight_max_properties * 6)

\* round(sqrt(p / q), 3) for 0 <= p < q, from the integer square root of
\* floor(4000000 * p / q): the result is k / 1000 iff (2k-1)^2 <= 4000000 p/q < (2k+1)^2
SqrtRounded(p, q) ==
    LET a == 40000 * p
        n == (a \div q) * 100 + ((a % q) * 100) \div q
    IN  10 * ((ISqrt(n) + 1) \div 2)

calculate_emergency_response_score(avg_response_time_minutes, percentile_90_time_minutes, config) ==
    LET m == config.emergency_max_minutes
        \* combined_score = num / den with den > 0
        num == (IF m > 0 THEN 1 ELSE 0 - 1) *
               (7 * avg_response_time_minutes + 3 * percentile_90_time_minutes)
        den == 100 * Abs(m)
    IN  IF m = 0 THEN Raised                 \* ZeroDivisionError
        ELSE IF num < 0 THEN Raised          \* math.sqrt: ValueError
        ELSE IF num >= den THEN Unit
        ELSE SqrtRounded(num, den)

calculate_air_quality_score(aqi_value, has_pm25, pm25_concentration, config) ==
    LET banded == IF aqi_value <= 50 THEN aqi_value * 50
                  ELSE IF aqi_value <= 100 THEN 2500 + (aqi_value - 50) * 50
                  ELSE IF aqi_value <= 150 THEN 5000 + (aqi_value - 100) * 50
                  ELSE 7500 + (aqi_value - 150) * 50
        aqi_score == Min(Unit, banded)
        pm25_score == Min(Unit, pm25_concentration * 100)
    IN  IF has_pm25
        THEN 10 * RoundDiv(7 * aqi_score + 3 * pm25_score, 100)
        ELSE Round3(aqi_score)

calculate_heat_exposure_score(avg_temperature_celsius, max_temperature_celsius, tree_canopy_percent, impervious_surface_percent, config) ==
    LET da == config.heat_exposure_max_celsius - 20
        dm == config.heat_exposure_max_celsius - 25
        \* avg_temp_score = an / |da| and max_temp_score = mn / |dm|, each min(1.0, .)
        an == Min(Abs(da), (IF da > 0 THEN 1 ELSE 0 - 1) * (avg_temperature_celsius - 20))
        mn == Min(Abs(dm), (IF dm > 0 THEN 1 ELSE 0 - 1) * (max_temperature_celsius - 25))
        \* temp_component = tn / td, after max(0.0, .)
        tn == Max(0, 3 * an * Abs(dm) + 2 * mn * Abs(da))
        td == 5 * Abs(da) * Abs(dm)
        \* env_component = en / 200
        en == (100 - tree_canopy_percent) + impervious_surface_percent
        \* score = 0.6 * tn / td + 0.4 * en / 200 = (300 * tn + en * td) / (500 * td)
    IN  IF da = 0 \/ dm = 0 THEN Raised
        ELSE 10 * RoundDiv(2 * (300 * tn + en * td), td)

SafeThreshold(road_type) ==
    IF road_type = "residential" THEN 25
    ELSE IF road_type = "arterial" THEN 35
    ELSE IF road_type = "highway" THEN 55
    ELSE 25

\* calculate_traffic_speed_score without the allowance of 10 mph on the
\* 85th-percentile speed
calculate_traffic_speed_score_no_allowance(avg_speed_mph, percentile_85_speed_mph, pedestrian_volume, road_type, config) ==
    LET safe_threshold == SafeThreshold(road_type)
        d == config.traffic_speed_max_mph - safe_threshold
        sgn == IF d > 0 THEN 1 ELSE 0 - 1
        an == Max(0, sgn * (avg_speed_mph - safe_threshold))
        pn == Max(0, sgn * (percentile_85_speed_mph - safe_threshold))
        sn == Min(10 * Abs(d), 6 * an + 4 * pn)
        ped_multiplier == IF pedestrian_volume < 50 THEN 10
                          ELSE IF pedestrian_volume < 200 THEN 13
                          ELSE 16
    IN  IF d = 0 THEN Raised
        ELSE MinOneRounded(sn * ped_multiplier, 100 * Abs(d))

calculate_traffic_speed_score(avg_speed_mph, percentile_85_speed_mph, pedestrian_volume, road_type, config) ==
    LET safe_threshold == SafeThreshold(road_type)
        d == config.traffic_speed_max_mph - safe_threshold
        sgn == IF d > 0 THEN 1 ELSE 0 - 1
        \* avg_speed_score = an / |d| and p85_speed_score = pn / |d|
        an == Max(0, sgn * (avg_speed_mph - safe_threshold))
        pn == Max(0, sgn * (percentile_85_speed_mph - safe_threshold - 10))
        \* speed_component = sn / (10 |d|)
        sn == Min(10 * Abs(d), 6 * an + 4 * pn)
        ped_multiplier == IF pedestrian_volume < 50 THEN 10
                          ELSE IF pedestrian_volume < 200 THEN 13
                          ELSE 16
    IN  IF d = 0 THEN Raised
        ELSE MinOneRounded(sn * ped_multiplier, 100 * Abs(d))

-----------------------------------------------------------------------------
(* Composite scoring *)

Category(composite) ==
    IF composite < 3000 THEN "low"
    ELSE IF composite < 5000 THEN "moderate"
    ELSE IF composite < 7000 THEN "high"
    ELSE "critical"

\* calculate_composite_risk_index taking the equal-weight branch always
calculate_composite_risk_index_mean(scores, config) ==
    LET composite == 10 * RoundDiv(SumSeq(scores), 60)
    IN  [composite_risk_index |-> composite, risk_category |-> Category(composite)]

\* scores is the tuple <<crime, blight, emergency_response, air_quality,
\* heat_exposure, traffic_speed>>
calculate_composite_risk_index(scores, config) ==
    LET w == WeightsOf(config)
        composite ==
            IF ~ validate(config)
            THEN 10 * RoundDiv(SumSeq(scores), 60)
            ELSE 10 * RoundDiv(SumSeq([i \in 1..6 |-> scores[i] * w[i]]), 10 * WeightUnit)
    IN  [ composite_risk_index |-> composite, risk_category |-> Category(composite) ]

-----------------------------------------------------------------------------
(* Spatial aggregation.  Distances are in decimetres. *)

\* R * c of the haversine formula for two points given in thousandths of a
\* degree near (0, 0): c = sqrt(dlat^2 + dlng^2) radians, and R * pi / 180000
\* is 111.19492664 m, whose square in dm^2 is 1236431
haversine_distance(lat1, lng1, lat2, lng2) ==
    LET dlat == lat2 - lat1
        dlng == lng2 - lng1
    IN  ISqrt((dlat * dlat + dlng * dlng) * 1236431)

RECURSIVE PowFrac(_, _, _)
\* base ** (x / 2^k) for 0 <= x < 2^k, base and result in Unit: one square
\* root per binary digit of the exponent
PowFrac(base, x, k) ==
    IF k = 0 THEN Unit
    ELSE LET root == ISqrt(base * Unit)
             half == 2 ^ (k - 1)
         IN  IF x >= half
             THEN (root * PowFrac(root, x - half, k - 1)) \div Unit
             ELSE PowFrac(root, x, k - 1)

\* config.spatial_decay_factor ** (distance / config.spatial_radius_meters),
\* for distance <= radius, the exponent taken to 10 binary digits
DecayWeight(distance, config) ==
    LET radius == 10 * config.spatial_radius_meters
    IN  IF distance = radius THEN config.spatial_decay_factor
        ELSE PowFrac(config.spatial_decay_factor, (distance * 1024) \div radius, 10)

RECURSIVE SmoothLoop(_, _, _, _, _, _)
\* the for loop of apply_spatial_smoothing over nearby_blocks; weighted_risk is
\* in Unit * Unit, total_weight in Unit
SmoothLoop(target_lat, target_lng, nearby_blocks, config, weighted_risk, total_weight) ==
    IF nearby_blocks = <<>>
    THEN [weighted_risk |-> weighted_risk, total_weight |-> total_weight]
    ELSE LET block == Head(nearby_blocks)
             distance == haversine_distance(target_lat, target_lng, block.lat, block.lng)
             weight == DecayWeight(distance, config)
         IN  IF distance <= 10 * config.spatial_radius_meters
             THEN SmoothLoop(target_lat, target_lng, Tail(nearby_blocks), config,
                             weighted_risk + block.composite_risk_index * weight,
                             total_weight + weight)
             ELSE SmoothLoop(target_lat, target_lng, Tail(nearby_blocks), config,
                             weighted_risk, total_weight)

RECURSIVE SmoothLoopAll(_, _, _, _, _, _)
\* the loop of apply_spatial_smoothing without the test of the radius
SmoothLoopAll(target_lat, target_lng, nearby_blocks, config, weighted_risk, total_weight) ==
    IF nearby_blocks = <<>>
    THEN [weighted_risk |-> weighted_risk, total_weight |-> total_weight]
    ELSE LET block == Head(nearby_blocks)
             distance == haversine_distance(target_lat, target_lng, block.lat, block.lng)
             weight == DecayWeight(distance, config)
         IN  SmoothLoopAll(target_lat, target_lng, Tail(nearby_blocks), config,
                           weighted_risk + block.composite_risk_index * weight,
                           total_weight + weight)

\* apply_spatial_smoothing with the weighted sum not divided by total_weight
apply_spatial_smoothing_no_total_weight(target_lat, target_lng, target_risk, nearby_blocks, config) ==
    IF nearby_blocks = <<>> THEN target_risk
    ELSE LET acc == SmoothLoop(target_lat, target_lng, nearby_blocks, config,
                               target_risk * Unit, Unit)
         IN  10 * RoundDiv(acc.weighted_risk, 10 * Unit)

\* apply_spatial_smoothing with every neighbor included, whatever its distance
apply_spatial_smoothing_no_radius(target_lat, target_lng, target_risk, nearby_blocks, config) ==
    IF nearby_blocks = <<>> THEN target_risk
    ELSE LET acc == SmoothLoopAll(target_lat, target_lng, nearby_blocks, config,
                                  target_risk * Unit, Unit)
         IN  10 * RoundDiv(acc.weighted_risk, 10 * acc.total_weight)

\* apply_spatial_smoothing without the early return on an empty neighbor list
apply_spatial_smoothing_no_early_return(target_lat, target_lng, target_risk, nearby_blocks, config) ==
    LET acc == SmoothLoop(target_lat, target_lng, nearby_blocks, config,
                          target_risk * Unit, Unit)
    IN  10 * RoundDiv(acc.weighted_risk, 10 * acc.total_weight)

\* apply_spatial_smoothing with the target left out of the weighted sum
apply_spatial_smoothing_no_target(target_lat, target_lng, target_risk, nearby_blocks, config) ==
    IF nearby_blocks = <<>> THEN target_risk
    ELSE LET acc == SmoothLoop(target_lat, target_lng, nearby_blocks, config, 0, 0)
         IN  IF acc.total_weight = 0 THEN Raised
             ELSE 10 * RoundDiv(acc.weighted_risk, 10 * acc.total_weight)

apply_spatial_smoothing(target_lat, target_lng, target_risk, nearby_blocks, config) ==
    IF nearby_blocks = <<>> THEN target_risk
    ELSE LET acc == SmoothLoop(target_lat, target_lng, nearby_blocks, config,
                               target_risk * Unit, Unit)
         IN  10 * RoundDiv(acc.weighted_risk, 10 * acc.total_weight)

-----------------------------------------------------------------------------
(* Block Risk Profile Builder *)

\* dict.get(key, default) on a raw-data dictionary (a record; <<>> is {})
Get(data, key, default) == IF key \in DOMAIN data THEN data[key] ELSE default

\* the profile returned by calculate_risk_for_block; now is the value read by
\* datetime.now().  A call in which a scoring function raises returns RaisedProfile.
RaisedProfile == [raised |-> TRUE]

calculate_risk_for_block(block_id, lat, lng, crime_data, blight_data, emergency_data, air_quality_data, heat_data, traffic_data, config, now) ==
    LET crime_score == calculate_crime_score(
            Get(crime_data, "incidents_per_month", 0),
            Get(crime_data, "severity_multiplier", 10), config)
        blight_score == calculate_blight_score(
            Get(blight_data, "abandoned_buildings", 0),
            Get(blight_data, "vacant_lots", 0),
            Get(blight_data, "code_violations", 0), config)
        emergency_score == calculate_emergency_response_score(
            Get(emergency_data, "avg_response_time_minutes", 0),
            Get(emergency_data, "percentile_90_time_minutes", 0), config)
        air_quality_score == calculate_air_quality_score(
            Get(air_quality_data, "aqi_value", 0),
            "pm25_concentration" \in DOMAIN air_quality_data,
            Get(air_quality_data, "pm25_concentration", 0), config)
        heat_score == calculate_heat_exposure_score(
            Get(heat_data, "avg_temperature_celsius", 20),
            Get(heat_data, "max_temperature_celsius", 25),
            Get(heat_data, "tree_canopy_percent", 30),
            Get(heat_data, "impervious_surface_percent", 50), config)
        traffic_score == calculate_traffic_speed_score(
            Get(traffic_data, "avg_speed_mph", 25),
            Get(traffic_data, "percentile_85_speed_mph", 30),
            Get(traffic_data, "pedestrian_volume", 50),
            Get(traffic_data, "road_type", "residential"), config)
        scores == << crime_score, blight_score, emergency_score, air_quality_score,
                     heat_score, traffic_score >>
        composite_result == calculate_composite_risk_index(scores, config)
    IN  IF \E i \in 1..6 : scores[i] = Raised THEN RaisedProfile
        ELSE [ block_id |-> block_id, lat |-> lat, lng |-> lng,
               crime_score |-> crime_score,
               blight_score |-> blight_score,
               emergency_response_score |-> emergency_score,
               air_quality_score |-> air_quality_score,
               heat_exposure_score |-> heat_score,
               traffic_speed_score |-> traffic_score,
               composite_risk_index |-> composite_result.composite_risk_index,
               risk_category |-> composite_result.risk_category,
               last_calculated_at |-> now ]

ScoresOf(profile) ==
    << profile.crime_score, profile.blight_score, profile.emergency_response_score,
       profile.air_quality_score, profile.heat_exposure_score,
       profile.traffic_speed_score >>

-----------------------------------------------------------------------------
(* Inputs of the checked runs *)

\* weight vectors: the defaults; sums 0.5, 0.989 and 1.011 (rejected by
\* validate); sums 0.99 and 1.01 (accepted); a vector with a negative weight
\* that sums to 1.0 (accepted)
WeightSamples ==
    { DefaultWeights,
      <<100, 100, 100, 100, 50, 50>>,
      <<239, 150, 200, 150, 100, 150>>,
      <<240, 150, 200, 150, 100, 150>>,
      <<260, 150, 200, 150, 100, 150>>,
      <<261, 150, 200, 150, 100, 150>>,
      <<1500, 0 - 500, 0, 0, 0, 0>> }

ScoreSamples == {0, 1580, 3600, 10000}

\* six scores 0.36, 0.158, 0.5, 0.4, 0.3, 0.45
WorkedExample == <<3600, 1580, 5000, 4000, 3000, 4500>>

NoCall == [called |-> FALSE]

CrimeSamples ==
    { <<>>,
      [incidents_per_month |-> 15, severity_multiplier |-> 12],
      [incidents_per_month |-> 100, severity_multiplier |-> 10] }
BlightSamples ==
    { <<>>,
      [abandoned_buildings |-> 2, vacant_lots |-> 3, code_violations |-> 5],
      [abandoned_buildings |-> 40, vacant_lots |-> 0, code_violations |-> 10] }
EmergencySamples ==
    { <<>>,
      [avg_response_time_minutes |-> 85, percentile_90_time_minutes |-> 120],
      [avg_response_time_minutes |-> 450, percentile_90_time_minutes |-> 900] }
AirQualitySamples ==
    { <<>>,
      [aqi_value |-> 75, pm25_concentration |-> 20],
      [aqi_value |-> 500] }
HeatSamples ==
    { <<>>,
      [avg_temperature_celsius |-> 0 - 5, max_temperature_celsius |-> 3,
       tree_canopy_percent |-> 100, impervious_surface_percent |-> 0],
      [avg_temperature_celsius |-> 48, max_temperature_celsius |-> 50,
       tree_canopy_percent |-> 0, impervious_surface_percent |-> 100] }
TrafficSamples ==
    { <<>>,
      [avg_speed_mph |-> 35, percentile_85_speed_mph |-> 42,
       pedestrian_volume |-> 150, road_type |-> "arterial"],
      [avg_speed_mph |-> 90, percentile_85_speed_mph |-> 95,
       pedestrian_volume |-> 300, road_type |-> "highway"] }

-----------------------------------------------------------------------------
(* Calls of the pure functions: Init draws the arguments, the action applies *)
(* the function to them                                                      *)

\* the largest value of the clock
MaxClock == 2

StoreIdle ==
    /\ risk_blocks = {}
    /\ risk_config = <<>>
    /\ req = <<>>
    /\ clock = 0
    /\ risk_history = <<>>
    /\ cache = <<>>

InitComposite ==
    /\ comp \in { [ called |-> FALSE, scores |-> scores, config |-> ConfigWithWeights(w) ] :
                  scores \in [1..6 -> ScoreSamples] \cup {WorkedExample},
                  w \in WeightSamples }
    /\ blk = NoCall
    /\ sm = NoCall
    /\ nrm = NoCall
    /\ StoreIdle

\* calculate_composite_risk_index(*scores, config)
CompositeCall ==
    /\ ~ comp.called
    /\ comp' = [ called |-> TRUE, scores |-> comp.scores, config |-> comp.config,
                 out |-> calculate_composite_risk_index(comp.scores, comp.config) ]
    /\ UNCHANGED <<risk_history, cache, nrm, blk, sm, risk_blocks, risk_config, req, clock>>

\* the same call again with one factor score raised and the others held
RaiseScore ==
    /\ comp.called
    /\ \E i \in 1..6, v \in ScoreSamples :
        /\ v > comp.scores[i]
        /\ LET scores == [comp.scores EXCEPT ![i] = v]
           IN  comp' = [ comp EXCEPT !.scores = scores,
                           !.out = calculate_composite_risk_index(scores, comp.config) ]
    /\ UNCHANGED <<risk_history, cache, nrm, blk, sm, risk_blocks, risk_config, req, clock>>

NextComposite == CompositeCall \/ RaiseScore
SpecComposite == InitComposite /\ [][NextComposite]_vars

InitBlock ==
    /\ blk \in { [ called |-> FALSE, crime_data |-> c, blight_data |-> b,
                   emergency_data |-> e, air_quality_data |-> a, heat_data |-> h,
                   traffic_data |-> t, config |-> ConfigWithWeights(w) ] :
                 c \in CrimeSamples, b \in BlightSamples, e \in EmergencySamples,
                 a \in AirQualitySamples, h \in HeatSamples, t \in TrafficSamples,
                 w \in WeightSamples }
    /\ comp = NoCall
    /\ sm = NoCall
    /\ nrm = NoCall
    /\ StoreIdle

\* calculate_risk_for_block(...) for the block b1 at (0, 0)
BlockCall ==
    /\ ~ blk.called
    /\ blk' = [ blk EXCEPT !.called = TRUE ] @@
              [ out |-> calculate_risk_for_block("b1", 0, 0, blk.crime_data,
                            blk.blight_data, blk.emergency_data, blk.air_quality_data,
                            blk.heat_data, blk.traffic_data, blk.config, clock) ]
    /\ UNCHANGED <<risk_history, cache, nrm, comp, sm, risk_blocks, risk_config, req, clock>>

\* time passes: a later datetime.now() returns a later value
Tick ==
    /\ clock < MaxClock
    /\ clock' = clock + 1
    /\ UNCHANGED <<risk_history, cache, comp, blk, sm, nrm, risk_blocks, risk_config, req>>

\* calculate_risk_for_block(...) a second time, with the arguments of the first call
BlockCallAgain ==
    /\ blk.called
    /\ "again" \notin DOMAIN blk
    /\ blk' = blk @@
              [ again |-> calculate_risk_for_block("b1", 0, 0, blk.crime_data,
                              blk.blight_data, blk.emergency_data, blk.air_quality_data,
                              blk.heat_data, blk.traffic_data, blk.config, clock) ]
    /\ UNCHANGED <<risk_history, cache, comp, sm, nrm, risk_blocks, risk_config, req, clock>>

NextBlock == BlockCall \/ Tick \/ BlockCallAgain
SpecBlock == InitBlock /\ [][NextBlock]_vars

\* neighbor blocks around the target at (0, 0): at 0 m, 111 m and 445 m
\* (inside the default radius of 500 m), at 556 m and 1001 m (outside)
NeighborSamples ==
    { [block_id |-> "n1", lat |-> 0, lng |-> 1, composite_risk_index |-> 9000],
      [block_id |-> "n2", lat |-> 4, lng |-> 0, composite_risk_index |-> 9000],
      [block_id |-> "n3", lat |-> 0, lng |-> 0, composite_risk_index |-> 1010],
      [block_id |-> "n4", lat |-> 0, lng |-> 1, composite_risk_index |-> 0],
      [block_id |-> "n5", lat |-> 3, lng |-> 4, composite_risk_index |-> 9000],
      [block_id |-> "n6", lat |-> 0, lng |-> 9, composite_risk_index |-> 10000] }

MaxNeighbors == 3

NeighborLists == UNION { [1..n -> NeighborSamples] : n \in 0..MaxNeighbors }

TargetSamples == {1000, 1234, 5000}

\* decay factors 0.0001, 0.5 and 1.0
DecaySamples == {1, 5000, Unit}

InitSmooth ==
    /\ sm \in { [ called |-> FALSE, target_lat |-> 0, target_lng |-> 0,
                  target_risk |-> t, nearby_blocks |-> nb,
                  config |-> [DEFAULT_CONFIG EXCEPT !.spatial_decay_factor = d] ] :
                t \in TargetSamples, nb \in NeighborLists, d \in DecaySamples }
    /\ comp = NoCall
    /\ blk = NoCall
    /\ nrm = NoCall
    /\ StoreIdle

\* apply_spatial_smoothing(target_lat, target_lng, target_risk, nearby_blocks, config)
SmoothCall ==
    /\ ~ sm.called
    /\ sm' = [ sm EXCEPT !.called = TRUE ] @@
             [ out |-> apply_spatial_smoothing(sm.target_lat, sm.target_lng,
                           sm.target_risk, sm.nearby_blocks, sm.config) ]
    /\ UNCHANGED <<risk_history, cache, nrm, comp, blk, risk_blocks, risk_config, req, clock>>

NextSmooth == SmoothCall
SpecSmooth == InitSmooth /\ [][NextSmooth]_vars

\* arguments of the factor scoring functions, values outside the documented
\* ranges (negative counts, times, speeds and percentages) included
ScoreCalls ==
    { [fn |-> "crime", args |-> <<i, m>>] :
        i \in {0 - 5, 0, 15, 1000}, m \in {0 - 10, 0, 12} }
    \cup { [fn |-> "blight", args |-> <<a, v, c>>] :
        a \in {0 - 3, 0, 40}, v \in {0 - 3, 5}, c \in {0 - 3, 10} }
    \cup { [fn |-> "emergency", args |-> <<a, p>>] :
        a \in {0 - 100, 0, 85, 900}, p \in {0 - 100, 0, 120, 900} }
    \cup { [fn |-> "air_quality", args |-> <<q, h, c>>] :
        q \in {0 - 50, 75, 900}, h \in BOOLEAN, c \in {0 - 10, 20, 300} }
    \cup { [fn |-> "heat", args |-> <<a, m, t, s>>] :
        a \in {0 - 40, 48, 100}, m \in {0 - 40, 50}, t \in {0 - 10, 150}, s \in {0 - 10, 150} }
    \cup { [fn |-> "traffic", args |-> <<a, p, v, r>>] :
        a \in {0 - 10, 90}, p \in {0 - 10, 95}, v \in {0 - 5, 300},
        r \in {"residential", "highway", "unknown"} }

\* the raw inputs of the example of the service module
TypicalCalls ==
    { [fn |-> "crime", args |-> <<15, 12>>],
      [fn |-> "blight", args |-> <<2, 3, 5>>],
      [fn |-> "emergency", args |-> <<85, 120>>],
      [fn |-> "air_quality", args |-> <<75, TRUE, 20>>],
      [fn |-> "heat", args |-> <<28, 35, 15, 75>>],
      [fn |-> "traffic", args |-> <<35, 42, 150, "arterial">>] }

\* speeds around the safe speeds of the three road types and pedestrian
\* volumes around the steps of the multiplier
TrafficCalls ==
    { [fn |-> "traffic", args |-> <<a, p, v, r>>] :
        a \in {20, 33, 45, 61}, p \in {30, 40, 52, 70}, v \in {10, 49, 50, 150, 199, 200},
        r \in {"residential", "arterial", "highway"} }

\* counts of blighted properties from none to more than the threshold holds
BlightCalls ==
    { [fn |-> "blight", args |-> <<a, v, c>>] :
        a \in {0, 1, 2, 20, 40}, v \in {0, 1, 3, 50}, c \in {0, 1, 5, 30} }

InitScore ==
    /\ nrm \in { [called |-> FALSE, fn |-> c.fn, args |-> c.args, config |-> DEFAULT_CONFIG] :
                 c \in ScoreCalls \cup TypicalCalls \cup TrafficCalls \cup BlightCalls }
    /\ comp = NoCall
    /\ blk = NoCall
    /\ sm = NoCall
    /\ StoreIdle

\* the call of the scoring function nrm.fn with the arguments nrm.args
ScoreOf(fn, a, config) ==
    CASE fn = "crime" -> calculate_crime_score(a[1], a[2], config)
      [] fn = "blight" -> calculate_blight_score(a[1], a[2], a[3], config)
      [] fn = "emergency" -> calculate_emergency_response_score(a[1], a[2], config)
      [] fn = "air_quality" -> calculate_air_quality_score(a[1], a[2], a[3], config)
      [] fn = "heat" -> calculate_heat_exposure_score(a[1], a[2], a[3], a[4], config)
      [] fn = "traffic" -> calculate_traffic_speed_score(a[1], a[2], a[3], a[4], config)

ScoreCall ==
    /\ ~ nrm.called
    /\ nrm' = [ nrm EXCEPT !.called = TRUE ] @@ [ out |-> ScoreOf(nrm.fn, nrm.args, nrm.config) ]
    /\ UNCHANGED <<risk_history, cache, comp, blk, sm, risk_blocks, risk_config, req, clock>>

NextScore == ScoreCall
SpecScore == InitScore /\ [][NextScore]_vars

\* the normalization threshold of RiskConfig that belongs to a factor
ThresholdOf(fn) ==
    CASE fn = "crime" -> "crime_max_incidents"
      [] fn = "blight" -> "blight_max_properties"
      [] fn = "emergency" -> "emergency_max_minutes"
      [] fn = "air_quality" -> "air_quality_max_aqi"
      [] fn = "heat" -> "heat_exposure_max_celsius"
      [] fn = "traffic" -> "traffic_speed_max_mph"

Factors == {"crime", "blight", "emergency", "air_quality", "heat", "traffic"}

\* other values of a factor's threshold: below and above the default
ThresholdSamples(fn) ==
    CASE fn = "crime" -> {25, 100}
      [] fn = "blight" -> {10, 30}
      [] fn = "emergency" -> {15, 60}
      [] fn = "air_quality" -> {100, 400}
      [] fn = "heat" -> {40, 60}
      [] fn = "traffic" -> {60, 80}

RECURSIVE ArgsToSeq(_)
ArgsToSeq(S) ==
    IF S = {} THEN <<>>
    ELSE LET x == CHOOSE y \in S : TRUE IN <<x>> \o ArgsToSeq(S \ {x})

\* a factor's scoring function is called on one list of raw inputs under two
\* configs, DEFAULT_CONFIG and a config that differs from it in the factor's
\* own threshold only
InitThreshold ==
    /\ nrm \in { [ called |-> FALSE, fn |-> fn, config |-> DEFAULT_CONFIG,
                   other |-> [DEFAULT_CONFIG EXCEPT ![ThresholdOf(fn)] = t],
                   rest |-> ArgsToSeq({ c.args : c \in { x \in ScoreCalls \cup TypicalCalls : x.fn = fn } }),
                   differs |-> FALSE ] :
                 fn \in Factors, t \in UNION { ThresholdSamples(f) : f \in Factors } }
    /\ nrm.other[ThresholdOf(nrm.fn)] \in ThresholdSamples(nrm.fn)
    /\ comp = NoCall
    /\ blk = NoCall
    /\ sm = NoCall
    /\ StoreIdle

\* the next raw input of the list is scored under both configs
ThresholdCall ==
    /\ nrm.rest # <<>>
    /\ LET args == Head(nrm.rest)
           out == ScoreOf(nrm.fn, args, nrm.config)
           other_out == ScoreOf(nrm.fn, args, nrm.other)
       IN  nrm' = [ called |-> TRUE, fn |-> nrm.fn, config |-> nrm.config,
                    other |-> nrm.other, rest |-> Tail(nrm.rest),
                    differs |-> (nrm.differs \/ out # other_out),
                    args |-> args, out |-> out, other_out |-> other_out ]
    /\ UNCHANGED <<comp, blk, sm, risk_blocks, risk_config, req, clock, risk_history, cache>>

NextThreshold == ThresholdCall
SpecThreshold == InitThreshold /\ [][NextThreshold]_vars

-----------------------------------------------------------------------------
(* The store (SupabaseService) and the request handlers of the risk-index   *)
(* endpoints.  Each call of the store is one step; a handler is suspended   *)
(* between its calls, where the other handlers and clients of the store run. *)

MaxHandlers == 2

Handlers == 1..MaxHandlers

BlockIds == {"b1", "b2"}
BlockLat(b) == 0
BlockLng(b) == IF b = "b1" THEN 0 ELSE 1

\* raw data of a recalculation request: no factor data at all, or high values
RawSamples ==
    { [ crime_data |-> <<>>, blight_data |-> <<>>, emergency_data |-> <<>>,
        air_quality_data |-> <<>>, heat_data |-> <<>>, traffic_data |-> <<>> ],
      [ crime_data |-> [incidents_per_month |-> 100, severity_multiplier |-> 10],
        blight_data |-> [abandoned_buildings |-> 40, vacant_lots |-> 0,
                         code_violations |-> 10],
        emergency_data |-> [avg_response_time_minutes |-> 450,
                            percentile_90_time_minutes |-> 900],
        air_quality_data |-> [aqi_value |-> 500],
        heat_data |-> [avg_temperature_celsius |-> 48, max_temperature_celsius |-> 50,
                       tree_canopy_percent |-> 0, impervious_surface_percent |-> 100],
        traffic_data |-> [avg_speed_mph |-> 90, percentile_85_speed_mph |-> 95,
                          pedestrian_volume |-> 300, road_type |-> "highway"] ] }

\* bodies of PUT /risk-index/blocks/{block_id}: the fields that are set
UpdateSamples ==
    { [composite_risk_index |-> 9000],
      [crime_score |-> 5000] }

\* rows of risk_config the store may hold under the name "default"
\* weights that sum to 0.5; weights that sum to 1.01, with the decay factor 1.0
StoredConfigs ==
    { ConfigWithWeights(<<100, 100, 100, 100, 50, 50>>),
      [ ConfigWithWeights(<<260, 150, 200, 150, 100, 150>>)
            EXCEPT !.spatial_decay_factor = Unit ] }

\* rows written by generate_risk_blocks: rounded scores, the composite of the
\* default weights and its category; b1 with all scores 0.1, b2 with all 0.9
SeedBlocks ==
    { LET scores == [i \in 1..6 |-> IF b = "b1" THEN 1000 ELSE 9000]
          composite == 10 * RoundDiv(SumSeq([i \in 1..6 |-> scores[i] * DefaultWeights[i]]),
                                     10 * WeightUnit)
      IN  [ block_id |-> b, lat |-> BlockLat(b), lng |-> BlockLng(b),
            crime_score |-> scores[1], blight_score |-> scores[2],
            emergency_response_score |-> scores[3], air_quality_score |-> scores[4],
            heat_exposure_score |-> scores[5], traffic_speed_score |-> scores[6],
            composite_risk_index |-> composite,
            risk_category |-> IF composite < 3000 THEN "low"
                              ELSE IF composite < 5000 THEN "moderate"
                              ELSE IF composite < 7000 THEN "high"
                              ELSE "critical",
            last_calculated_at |-> 0 ] : b \in BlockIds }

\* coordinates of a recalculation request for block b, in thousandths of a
\* degree: the block's own, a latitude of 91 and a longitude of -181 degrees
CoordSamples(b) ==
    { <<BlockLat(b), BlockLng(b)>>,
      <<91 * 1000, BlockLng(b)>>,
      <<BlockLat(b), 0 - 181 * 1000>> }

\* RecalculateRiskRequest with the bounds of lng left out
RecalculateRiskRequest_lat_only(lat, lng) ==
    /\ 0 - 90 * 1000 <= lat /\ lat <= 90 * 1000

\* the constraints of RecalculateRiskRequest on lat and lng
RecalculateRiskRequest(lat, lng) ==
    /\ 0 - 90 * 1000 <= lat /\ lat <= 90 * 1000
    /\ 0 - 180 * 1000 <= lng /\ lng <= 180 * 1000

Idle == [op |-> "idle", pc |-> "idle"]

Init ==
    /\ comp = NoCall
    /\ blk = NoCall
    /\ sm = NoCall
    /\ nrm = NoCall
    /\ risk_blocks \in { {}, SeedBlocks }
    /\ risk_config \in { <<>> } \cup { "default" :> c : c \in StoredConfigs }
    /\ req = [p \in Handlers |-> Idle]
    /\ clock = 0
    /\ risk_history = <<>>
    /\ cache = <<>>

RECURSIVE SetToSeq(_)
\* the rows of a response, as a list
SetToSeq(S) ==
    IF S = {} THEN <<>>
    ELSE LET x == CHOOSE y \in S : TRUE IN <<x>> \o SetToSeq(S \ {x})

(* SupabaseService *)

get_risk_blocks == risk_blocks

get_risk_block_by_id(block_id) == { r \in risk_blocks : r.block_id = block_id }

\* radius_deg = radius / 111000 at the caller; lat and lng in thousandths of a degree
get_risk_blocks_in_bounds(lat, lng, radius_meters) ==
    { r \in risk_blocks :
        /\ (lat - r.lat) * 111 <= radius_meters /\ (r.lat - lat) * 111 <= radius_meters
        /\ (lng - r.lng) * 111 <= radius_meters /\ (r.lng - lng) * 111 <= radius_meters }

\* UPDATE risk_blocks SET update_data WHERE block_id = ...
update_risk_block(block_id, update_data) ==
    { IF r.block_id = block_id
      THEN [f \in DOMAIN r |-> IF f \in DOMAIN update_data THEN update_data[f] ELSE r[f]]
      ELSE r : r \in risk_blocks }

\* INSERT INTO risk_blocks: block_id is the key of the table (the conflict
\* target of the upsert), so a second row for a block id is rejected
create_risk_block_raises(block_data) ==
    \E r \in risk_blocks : r.block_id = block_data.block_id

create_risk_block(block_data) == risk_blocks \cup {block_data}

\* INSERT ... ON CONFLICT (block_id) DO UPDATE, one statement for all rows
batch_upsert_risk_blocks(blocks) ==
    { r \in risk_blocks : \A u \in blocks : u.block_id # r.block_id } \cup blocks

\* LoadConfig that answers a missing row with a config of zero weights
LoadConfig_unweighted(config_name) ==
    IF config_name \in DOMAIN risk_config
    THEN LET config_data == risk_config[config_name]
         IN  [ f \in DOMAIN DEFAULT_CONFIG |-> Get(config_data, f, DEFAULT_CONFIG[f]) ]
    ELSE ConfigWithWeights(<<0, 0, 0, 0, 0, 0>>)

\* RiskConfig(...) built from the stored row by recalculate_risk_for_block,
\* or DEFAULT_CONFIG when there is no row
LoadConfig(config_name) ==
    IF config_name \in DOMAIN risk_config
    THEN LET config_data == risk_config[config_name]
         IN  [ f \in DOMAIN DEFAULT_CONFIG |-> Get(config_data, f, DEFAULT_CONFIG[f]) ]
    ELSE DEFAULT_CONFIG

\* RiskConfig(...) built by recalculate_all_risk_blocks: the six weights only
LoadConfigWeights(config_name) ==
    IF config_name \in DOMAIN risk_config
    THEN LET config_data == risk_config[config_name]
             weights == { "crime_weight", "blight_weight", "emergency_response_weight",
                          "air_quality_weight", "heat_exposure_weight",
                          "traffic_speed_weight" }
         IN  [ f \in DOMAIN DEFAULT_CONFIG |->
                 IF f \in weights THEN Get(config_data, f, DEFAULT_CONFIG[f])
                 ELSE DEFAULT_CONFIG[f] ]
    ELSE DEFAULT_CONFIG

(* POST /risk-index/recalculate *)

\* the request arrives and is validated (422 before the handler runs); then
\* get_risk_config and calculate_risk_for_block
Recalculate(p) ==
    /\ req[p].op = "idle"
    /\ clock < MaxClock
    /\ clock' = clock + 1
    /\ \E b \in BlockIds, raw \in RawSamples, smooth \in BOOLEAN, save \in BOOLEAN :
       \E coord \in CoordSamples(b) :
        LET config == LoadConfig("default")
            result == calculate_risk_for_block(b, coord[1], coord[2],
                          raw.crime_data, raw.blight_data, raw.emergency_data,
                          raw.air_quality_data, raw.heat_data, raw.traffic_data,
                          config, clock')
            request == [ op |-> "recalculate", block_id |-> b,
                         lat |-> coord[1], lng |-> coord[2],
                         apply_spatial_smoothing |-> smooth, save_to_database |-> save,
                         existing |-> FALSE ]
        IN  IF ~ RecalculateRiskRequest(coord[1], coord[2])
            THEN req' = [req EXCEPT ![p] = request @@
                          [ pc |-> "done", config |-> <<>>, result |-> <<>>, status |-> 422 ]]
            ELSE req' = [req EXCEPT ![p] = request @@
                          [ pc |-> IF smooth THEN "smooth" ELSE IF save THEN "lookup" ELSE "done",
                            config |-> config, result |-> result, status |-> 200 ]]
    /\ UNCHANGED <<risk_history, cache, nrm, comp, blk, sm, risk_blocks, risk_config>>

\* RecalculateSmooth that loads the config again for the smoothing
RecalculateSmooth_reload(p) ==
    /\ req[p].op = "recalculate" /\ req[p].pc = "smooth"
    /\ LET r == req[p]
           config == LoadConfig("default")
           nearby_blocks == SetToSeq({ b \in get_risk_blocks_in_bounds(
                                              r.lat, r.lng, config.spatial_radius_meters) :
                                       b.block_id # r.block_id })
           smoothed_risk == apply_spatial_smoothing(r.lat, r.lng,
                                r.result.composite_risk_index, nearby_blocks, config)
           result == IF nearby_blocks # <<>>
                     THEN [r.result EXCEPT !.composite_risk_index = smoothed_risk,
                                           !.risk_category = Category(smoothed_risk)]
                     ELSE r.result
       IN  req' = [req EXCEPT ![p].result = result,
                              ![p].pc = IF r.save_to_database THEN "lookup" ELSE "done"]
    /\ UNCHANGED <<risk_history, cache, nrm, comp, blk, sm, risk_blocks, risk_config, clock>>

\* RecalculateSmooth that keeps the category of the index before the smoothing
RecalculateSmooth_stale_category(p) ==
    /\ req[p].op = "recalculate" /\ req[p].pc = "smooth"
    /\ LET r == req[p]
           nearby_blocks == SetToSeq({ b \in get_risk_blocks_in_bounds(
                                              r.lat, r.lng, r.config.spatial_radius_meters) :
                                       b.block_id # r.block_id })
           smoothed_risk == apply_spatial_smoothing(r.lat, r.lng,
                                r.result.composite_risk_index, nearby_blocks, r.config)
           result == IF nearby_blocks # <<>>
                     THEN [r.result EXCEPT !.composite_risk_index = smoothed_risk]
                     ELSE r.result
       IN  req' = [req EXCEPT ![p].result = result,
                              ![p].pc = IF r.save_to_database THEN "lookup" ELSE "done"]
    /\ UNCHANGED <<risk_history, cache, nrm, comp, blk, sm, risk_blocks, risk_config, clock>>

\* RecalculateSmooth that goes on to save whatever save_to_database says
RecalculateSmooth_always_save(p) ==
    /\ req[p].op = "recalculate" /\ req[p].pc = "smooth"
    /\ LET r == req[p]
           nearby_blocks == SetToSeq({ b \in get_risk_blocks_in_bounds(
                                              r.lat, r.lng, r.config.spatial_radius_meters) :
                                       b.block_id # r.block_id })
           smoothed_risk == apply_spatial_smoothing(r.lat, r.lng,
                                r.result.composite_risk_index, nearby_blocks, r.config)
           result == IF nearby_blocks # <<>>
                     THEN [r.result EXCEPT !.composite_risk_index = smoothed_risk,
                                           !.risk_category = Category(smoothed_risk)]
                     ELSE r.result
       IN  req' = [req EXCEPT ![p].result = result, ![p].pc = "lookup"]
    /\ UNCHANGED <<risk_history, cache, nrm, comp, blk, sm, risk_blocks, risk_config, clock>>

\* get_risk_blocks_in_bounds, then the smoothing and the category of its result
RecalculateSmooth(p) ==
    /\ req[p].op = "recalculate" /\ req[p].pc = "smooth"
    /\ LET r == req[p]
           nearby_blocks == SetToSeq({ b \in get_risk_blocks_in_bounds(
                                              r.lat, r.lng, r.config.spatial_radius_meters) :
                                       b.block_id # r.block_id })
           smoothed_risk == apply_spatial_smoothing(r.lat, r.lng,
                                r.result.composite_risk_index, nearby_blocks, r.config)
           result == IF nearby_blocks # <<>>
                     THEN [r.result EXCEPT !.composite_risk_index = smoothed_risk,
                                           !.risk_category = Category(smoothed_risk)]
                     ELSE r.result
       IN  req' = [req EXCEPT ![p].result = result,
                              ![p].pc = IF r.save_to_database THEN "lookup" ELSE "done"]
    /\ UNCHANGED <<risk_history, cache, nrm, comp, blk, sm, risk_blocks, risk_config, clock>>

\* existing = get_risk_block_by_id(block_id)
RecalculateLookup(p) ==
    /\ req[p].op = "recalculate" /\ req[p].pc = "lookup"
    /\ req' = [req EXCEPT ![p].existing = get_risk_block_by_id(req[p].block_id) # {},
                          ![p].pc = "persist"]
    /\ UNCHANGED <<risk_history, cache, nrm, comp, blk, sm, risk_blocks, risk_config, clock>>

\* update_risk_block or create_risk_block; an exception of the store becomes
\* the response 500
RecalculatePersist(p) ==
    /\ req[p].op = "recalculate" /\ req[p].pc = "persist"
    /\ LET r == req[p]
       IN  IF r.existing
           THEN /\ risk_blocks' = update_risk_block(r.block_id, r.result)
                /\ req' = [req EXCEPT ![p].pc = "done"]
           ELSE IF create_risk_block_raises(r.result)
           THEN /\ risk_blocks' = risk_blocks
                /\ req' = [req EXCEPT ![p].pc = "done", ![p].status = 500]
           ELSE /\ risk_blocks' = create_risk_block(r.result)
                /\ req' = [req EXCEPT ![p].pc = "done"]
    /\ UNCHANGED <<risk_history, cache, nrm, comp, blk, sm, risk_config, clock>>

(* POST /risk-index/recalculate-all *)

\* the request arrives; blocks = get_risk_blocks(limit=10000)
RecalculateAll(p) ==
    /\ req[p].op = "idle"
    /\ clock < MaxClock
    /\ clock' = clock + 1
    /\ \E smooth \in BOOLEAN :
        req' = [req EXCEPT ![p] =
                  [ op |-> "recalculate_all",
                    pc |-> IF get_risk_blocks = {} THEN "done" ELSE "config",
                    apply_spatial_smoothing |-> smooth,
                    blocks |-> get_risk_blocks, config |-> DEFAULT_CONFIG,
                    failed |-> {}, status |-> 200, blocks_updated |-> 0 ]]
    /\ UNCHANGED <<risk_history, cache, nrm, comp, blk, sm, risk_blocks, risk_config>>

\* config_data = get_risk_config(config_name)
RecalculateAllConfig(p) ==
    /\ req[p].op = "recalculate_all" /\ req[p].pc = "config"
    /\ req' = [req EXCEPT ![p].config = LoadConfigWeights("default"), ![p].pc = "upsert"]
    /\ UNCHANGED <<risk_history, cache, nrm, comp, blk, sm, risk_blocks, risk_config, clock>>

\* the loop building each row anew from the block id and the derived fields,
\* the coordinates and the factor scores left at 0
UpdatedBlocks_partial_rows(blocks, config, now) ==
    { LET composite_result == calculate_composite_risk_index(ScoresOf(block), config)
      IN  [ f \in DOMAIN block |->
              CASE f = "composite_risk_index" -> composite_result.composite_risk_index
                [] f = "risk_category" -> composite_result.risk_category
                [] f = "last_calculated_at" -> now
                [] f = "block_id" -> block.block_id
                [] OTHER -> 0 ] : block \in blocks }

\* the rows the loop of recalculate_all_risk_blocks builds from the rows it read
UpdatedBlocks(blocks, config, now) ==
    { LET composite_result == calculate_composite_risk_index(ScoresOf(block), config)
      IN  [block EXCEPT !.composite_risk_index = composite_result.composite_risk_index,
                        !.risk_category = composite_result.risk_category,
                        !.last_calculated_at = now] : block \in blocks }

\* the loop and batch_upsert_risk_blocks(updated_blocks); the store rejects the
\* rows of failed (none, or one block's row), and with them the statement
RecalculateAllUpsert(p) ==
    /\ req[p].op = "recalculate_all" /\ req[p].pc = "upsert"
    /\ LET updated_blocks == UpdatedBlocks(req[p].blocks, req[p].config, clock)
       IN  \E failed \in { {} } \cup { {u.block_id} : u \in updated_blocks } :
              IF failed # {}
              THEN /\ risk_blocks' = risk_blocks
                   /\ req' = [req EXCEPT ![p].pc = "done", ![p].status = 500,
                                         ![p].failed = failed]
              ELSE /\ risk_blocks' = batch_upsert_risk_blocks(updated_blocks)
                   /\ req' = [req EXCEPT ![p].pc = "done",
                                         ![p].blocks_updated = Cardinality(updated_blocks)]
    /\ UNCHANGED <<risk_history, cache, nrm, comp, blk, sm, risk_config, clock>>

(* PUT /risk-index/blocks/{block_id} *)

\* the request arrives; existing = get_risk_block_by_id(block_id), 404 without it
UpdateRiskBlock(p) ==
    /\ req[p].op = "idle"
    /\ clock < MaxClock
    /\ clock' = clock + 1
    /\ \E b \in BlockIds, update_data \in UpdateSamples :
        req' = [req EXCEPT ![p] =
                  [ op |-> "update_risk_block",
                    pc |-> IF get_risk_block_by_id(b) = {} THEN "done" ELSE "write",
                    block_id |-> b,
                    update_dict |-> update_data @@ [last_calculated_at |-> clock'],
                    status |-> IF get_risk_block_by_id(b) = {} THEN 404 ELSE 200 ]]
    /\ UNCHANGED <<risk_history, cache, nrm, comp, blk, sm, risk_blocks, risk_config>>

\* db.update_risk_block(block_id, update_dict)
UpdateRiskBlockWrite(p) ==
    /\ req[p].op = "update_risk_block" /\ req[p].pc = "write"
    /\ risk_blocks' = update_risk_block(req[p].block_id, req[p].update_dict)
    /\ req' = [req EXCEPT ![p].pc = "done"]
    /\ UNCHANGED <<risk_history, cache, nrm, comp, blk, sm, risk_config, clock>>

\* UPDATE risk_config SET config_data WHERE config_name = ...
update_risk_config(config_name, config_data) ==
    IF config_name \in DOMAIN risk_config
    THEN [risk_config EXCEPT ![config_name] = config_data @@ @]
    ELSE risk_config

\* an administrator replaces the values of the config "default"
UpdateRiskConfig(config_data) ==
    /\ "default" \in DOMAIN risk_config
    /\ risk_config["default"] # config_data
    /\ risk_config' = update_risk_config("default", config_data)
    /\ UNCHANGED <<risk_history, cache, nrm, comp, blk, sm, risk_blocks, req, clock>>

\* the response is sent and the handler ends
Respond(p) ==
    /\ req[p].pc = "done"
    /\ req' = [req EXCEPT ![p] = Idle]
    /\ UNCHANGED <<risk_history, cache, nrm, comp, blk, sm, risk_blocks, risk_config, clock>>

HandlerStep ==
    \E p \in Handlers :
        \/ Recalculate(p)
        \/ RecalculateSmooth(p)
        \/ RecalculateLookup(p)
        \/ RecalculatePersist(p)
        \/ RecalculateAll(p)
        \/ RecalculateAllConfig(p)
        \/ RecalculateAllUpsert(p)
        \/ UpdateRiskBlock(p)
        \/ UpdateRiskBlockWrite(p)
        \/ Respond(p)

Next ==
    \/ HandlerStep
    \/ \E config_data \in StoredConfigs : UpdateRiskConfig(config_data)

Spec == Init /\ [][Next]_vars

-----------------------------------------------------------------------------
(* Routing.  A path is the list of its segments after the API prefix; a     *)
(* segment of a route is a literal or a path parameter, which matches any   *)
(* one non-empty segment.  The routes are tried in the order in which they  *)
(* were declared, the routers in the order in which main.py includes them.  *)

Lit(s) == [lit |-> s]
Param(s) == [param |-> s]

Route(method, path, endpoint) == [method |-> method, path |-> path, endpoint |-> endpoint]

Routes ==
    << \* risk_index.router, prefix /risk-index
       Route("GET", <<Lit("risk-index"), Lit("blocks")>>, "get_risk_blocks"),
       Route("GET", <<Lit("risk-index"), Lit("blocks"), Param("block_id")>>, "get_risk_block"),
       Route("GET", <<Lit("risk-index"), Lit("blocks"), Lit("bounds")>>, "get_risk_blocks_in_bounds"),
       Route("PUT", <<Lit("risk-index"), Lit("blocks"), Param("block_id")>>, "update_risk_block"),
       Route("GET", <<Lit("risk-index"), Lit("factors")>>, "get_risk_factors"),
       Route("GET", <<Lit("risk-index"), Lit("history"), Param("block_id")>>, "get_risk_history"),
       Route("GET", <<Lit("risk-index"), Lit("config"), Param("config_name")>>, "get_risk_config"),
       Route("POST", <<Lit("risk-index"), Lit("recalculate")>>, "recalculate_risk_for_block"),
       Route("POST", <<Lit("risk-index"), Lit("recalculate-all")>>, "recalculate_all_risk_blocks"),
       Route("GET", <<Lit("risk-index"), Lit("statistics")>>, "get_risk_statistics"),
       \* risk.router, prefix /risk-index
       Route("GET", <<Lit("risk-index")>>, "get_risk_index"),
       Route("GET", <<Lit("risk-index"), Param("block_id")>>, "get_risk_block_details"),
       Route("POST", <<Lit("risk-index"), Lit("calculate")>>, "calculate_risk_for_area"),
       Route("GET", <<Lit("risk-index"), Lit("high-risk-areas")>>, "get_high_risk_areas") >>

PathMatches(pattern, path) ==
    /\ Len(pattern) = Len(path)
    /\ \A i \in 1..Len(pattern) :
          IF "param" \in DOMAIN pattern[i] THEN path[i] # "" ELSE pattern[i].lit = path[i]

RECURSIVE FirstMatch(_, _, _, _)
\* the index of the first route from i on that matches the path and the method
\* (0 if there is none)
FirstMatch(routes, method, path, i) ==
    IF i > Len(routes) THEN 0
    ELSE IF PathMatches(routes[i].path, path) /\ routes[i].method = method THEN i
    ELSE FirstMatch(routes, method, path, i + 1)

\* the values of the path parameters of a matching route
PathParams(pattern, path) ==
    [ n \in { pattern[i].param : i \in { j \in 1..Len(pattern) : "param" \in DOMAIN pattern[j] } } |->
        path[CHOOSE i \in 1..Len(pattern) : "param" \in DOMAIN pattern[i] /\ pattern[i].param = n] ]

\* the endpoint a request is dispatched to: the first route that matches path
\* and method; 405 when only the path of some route matches, or else 404
Dispatch(method, path) ==
    LET i == FirstMatch(Routes, method, path, 1)
    IN  IF i > 0
        THEN [endpoint |-> Routes[i].endpoint, params |-> PathParams(Routes[i].path, path)]
        ELSE IF \E k \in 1..Len(Routes) : PathMatches(Routes[k].path, path)
        THEN [endpoint |-> "method_not_allowed", params |-> <<>>]
        ELSE [endpoint |-> "not_found", params |-> <<>>]

-----------------------------------------------------------------------------
(* The read endpoints, the response cache and the area recalculation *)

\* SELECT * FROM risk_blocks WHERE lat and lng within the bounds (inclusive)
SelectInBounds(lat_min, lat_max, lng_min, lng_max) ==
    { r \in risk_blocks :
        /\ lat_min <= r.lat /\ r.lat <= lat_max
        /\ lng_min <= r.lng /\ r.lng <= lng_max }

\* the sets a list of rows cut to its first limit rows can be
FirstRows(rows, limit) ==
    IF Cardinality(rows) <= limit THEN {rows}
    ELSE { S \in SUBSET rows : Cardinality(S) = limit }

\* RiskIndexService.get_risk_blocks_in_bounds: the rows in the bounds, the
\* min_risk filter (None is has_min_risk = FALSE) and the limit
Service_get_risk_blocks_in_bounds(q) ==
    LET blocks == SelectInBounds(q.min_lat, q.max_lat, q.min_lng, q.max_lng)
        filtered == IF q.has_min_risk
                    THEN { b \in blocks : b.composite_risk_index >= q.min_risk }
                    ELSE blocks
    IN  FirstRows(filtered, q.limit)

\* the key of a cached call: the prefix and the arguments (their MD5 digest)
generate_cache_key(prefix, args) == <<prefix, args>>

Response(status, result, new_cache) == [status |-> status, result |-> result, cache |-> new_cache]

\* the constraints of the Query parameters of a bounding box
BoundsValid(min_lat, max_lat, min_lng, max_lng) ==
    /\ 0 - 90 * 1000 <= min_lat /\ min_lat <= 90 * 1000
    /\ 0 - 90 * 1000 <= max_lat /\ max_lat <= 90 * 1000
    /\ 0 - 180 * 1000 <= min_lng /\ min_lng <= 180 * 1000
    /\ 0 - 180 * 1000 <= max_lng /\ max_lng <= 180 * 1000

\* GET /risk-index/blocks/{block_id}
get_risk_block(block_id) ==
    LET block == get_risk_block_by_id(block_id)
    IN  IF block = {} THEN { Response(404, <<>>, cache) }
        ELSE { Response(200, CHOOSE r \in block : TRUE, cache) }

\* GET /risk-index/blocks/bounds
get_risk_blocks_in_bounds_endpoint(q) ==
    IF ~ BoundsValid(q.lat_min, q.lat_max, q.lng_min, q.lng_max)
    THEN { Response(422, <<>>, cache) }
    ELSE { Response(200, SelectInBounds(q.lat_min, q.lat_max, q.lng_min, q.lng_max), cache) }

\* GET /risk-index: cached_risk_index under the key of its six arguments
get_risk_index(q) ==
    LET cache_key == generate_cache_key("risk_index",
                         <<q.min_lat, q.max_lat, q.min_lng, q.max_lng,
                           IF q.has_min_risk THEN q.min_risk ELSE 0 - 1, q.limit>>)
    IN  IF ~ BoundsValid(q.min_lat, q.max_lat, q.min_lng, q.max_lng) THEN { Response(422, <<>>, cache) }
        ELSE IF cache_key \in DOMAIN cache THEN { Response(200, cache[cache_key], cache) }
        ELSE { Response(200, result, cache @@ (cache_key :> result)) :
                 result \in Service_get_risk_blocks_in_bounds(q) }

\* GET /risk-index/{block_id}: cached_block_details under the key of the block
\* id; the 404 is raised inside the cached function and stores nothing
get_risk_block_details(block_id) ==
    LET cache_key == generate_cache_key("risk_block_details", <<block_id>>)
        block == get_risk_block_by_id(block_id)
    IN  IF cache_key \in DOMAIN cache THEN { Response(200, cache[cache_key], cache) }
        ELSE IF block = {} THEN { Response(404, <<>>, cache) }
        ELSE LET result == CHOOSE r \in block : TRUE
             IN  { Response(200, result, cache @@ (cache_key :> result)) }

\* GET /risk-index/high-risk-areas: db.get_risk_blocks(min_risk=, limit=)
get_high_risk_areas(q) ==
    { Response(200, [total |-> Cardinality(blocks), min_risk_threshold |-> q.min_risk,
                     high_risk_areas |-> blocks], cache) :
        blocks \in FirstRows({ r \in risk_blocks : r.composite_risk_index >= q.min_risk },
                             q.limit) }

\* RiskIndexService.update_risk_blocks_in_area
update_risk_blocks_in_area(min_lat, max_lat, min_lng, max_lng, block_size) ==
    LET blocks == SelectInBounds(min_lat, max_lat, min_lng, max_lng)
    IN  Cardinality(blocks)

\* POST /risk-index/calculate without the check of the size of the box
calculate_risk_for_area_no_limit(q) ==
    LET blocks_updated == update_risk_blocks_in_area(q.min_lat, q.max_lat, q.min_lng,
                                                     q.max_lng, q.block_size)
    IN  IF ~ BoundsValid(q.min_lat, q.max_lat, q.min_lng, q.max_lng) THEN { Response(422, <<>>, cache) }
        ELSE { Response(200, [blocks_updated |-> blocks_updated], cache) }

\* POST /risk-index/calculate
calculate_risk_for_area(q) ==
    LET lat_diff == q.max_lat - q.min_lat
        lng_diff == q.max_lng - q.min_lng
        blocks_updated == update_risk_blocks_in_area(q.min_lat, q.max_lat, q.min_lng,
                                                     q.max_lng, q.block_size)
    IN  IF ~ BoundsValid(q.min_lat, q.max_lat, q.min_lng, q.max_lng) THEN { Response(422, <<>>, cache) }
        ELSE IF lat_diff > 500 \/ lng_diff > 500 THEN { Response(400, <<>>, cache) }
        ELSE { Response(200, [blocks_updated |-> blocks_updated], cache) }

-----------------------------------------------------------------------------
(* Risk history *)

\* the most rows of risk_history
MaxHistory == 2

\* create_risk_history_snapshot as an upsert on block_id: the new row takes
\* the place of the block's earlier snapshot
create_risk_history_snapshot_upsert(snapshot_data) ==
    LET IsOther(r) == r.block_id # snapshot_data.block_id
    IN  Append(SelectSeq(risk_history, IsOther), snapshot_data)

\* INSERT INTO risk_history, one row
create_risk_history_snapshot(snapshot_data) == Append(risk_history, snapshot_data)

\* INSERT INTO risk_history, a list of rows
batch_insert_risk_history(snapshots) == risk_history \o snapshots

RECURSIVE InsertDesc(_, _)
\* row put into a list ordered by snapshot_date, latest first
InsertDesc(row, rows) ==
    IF rows = <<>> THEN <<row>>
    ELSE IF row.snapshot_date >= Head(rows).snapshot_date THEN <<row>> \o rows
    ELSE <<Head(rows)>> \o InsertDesc(row, Tail(rows))

RECURSIVE OrderDesc(_)
OrderDesc(rows) == IF rows = <<>> THEN <<>> ELSE InsertDesc(Head(rows), OrderDesc(Tail(rows)))

\* SELECT * FROM risk_history WHERE block_id = ... ORDER BY snapshot_date DESC LIMIT days
get_risk_history(block_id, days) ==
    LET IsOf(r) == r.block_id = block_id
        rows == OrderDesc(SelectSeq(risk_history, IsOf))
    IN  SubSeq(rows, 1, Min(days, Len(rows)))

\* GET /risk-index/history/{block_id}
get_risk_history_endpoint(block_id, days) ==
    IF days < 1 \/ days > 365 THEN { Response(422, <<>>, cache) }
    ELSE { Response(200, get_risk_history(block_id, days), cache) }

\* the snapshot of a stored block taken at the date now: its id, index,
\* category and factor scores
Snapshot(block, now) ==
    [ block_id |-> block.block_id,
      composite_risk_index |-> block.composite_risk_index,
      risk_category |-> block.risk_category,
      crime_score |-> block.crime_score, blight_score |-> block.blight_score,
      emergency_response_score |-> block.emergency_response_score,
      air_quality_score |-> block.air_quality_score,
      heat_exposure_score |-> block.heat_exposure_score,
      traffic_speed_score |-> block.traffic_speed_score,
      snapshot_date |-> now ]

\* a client of the store takes the snapshot of one block
CreateRiskHistorySnapshot ==
    /\ clock < MaxClock
    /\ Len(risk_history) < MaxHistory
    /\ clock' = clock + 1
    /\ \E block \in risk_blocks :
          risk_history' = create_risk_history_snapshot(Snapshot(block, clock'))
    /\ UNCHANGED <<comp, blk, sm, nrm, risk_blocks, risk_config, req, cache>>

\* a client of the store takes the snapshots of all blocks at once
BatchInsertRiskHistory ==
    /\ clock < MaxClock
    /\ risk_blocks # {}
    /\ Len(risk_history) + Cardinality(risk_blocks) <= MaxHistory
    /\ clock' = clock + 1
    /\ LET snapshot_date == clock'
       IN  risk_history' = batch_insert_risk_history(
                               [i \in 1..Cardinality(risk_blocks) |->
                                   Snapshot(SetToSeq(risk_blocks)[i], snapshot_date)])
    /\ UNCHANGED <<comp, blk, sm, nrm, risk_blocks, risk_config, req, cache>>

-----------------------------------------------------------------------------
(* Requests served in one step: one call of the store, or none *)

\* bounding boxes in thousandths of a degree: around both blocks, around b1 only
ReadBoxes ==
    { [min_lat |-> 0 - 1, max_lat |-> 1, min_lng |-> 0 - 1, max_lng |-> 2],
      [min_lat |-> 0 - 1, max_lat |-> 1, min_lng |-> 0 - 1, max_lng |-> 0] }

\* and for the area recalculation: a box 0.501 degrees high, a box of
\* exactly 0.5 degrees, and a box with a latitude of -91 degrees
AreaBoxes ==
    ReadBoxes \cup
    { [min_lat |-> 0, max_lat |-> 501, min_lng |-> 0, max_lng |-> 1],
      [min_lat |-> 0, max_lat |-> 500, min_lng |-> 0, max_lng |-> 500],
      [min_lat |-> 0 - 91 * 1000, max_lat |-> 0, min_lng |-> 0, max_lng |-> 1] }

Request(method, path, query) == [method |-> method, path |-> path, query |-> query]

Requests ==
    { Request("GET", <<"risk-index", "blocks", b>>, <<>>) : b \in BlockIds }
    \cup { Request("GET", <<"risk-index", "blocks", "bounds">>,
                   [lat_min |-> x.min_lat, lat_max |-> x.max_lat,
                    lng_min |-> x.min_lng, lng_max |-> x.max_lng]) : x \in ReadBoxes }
    \cup { Request("GET", <<"risk-index", b>>, <<>>) : b \in BlockIds }
    \cup { Request("GET", <<"risk-index", "high-risk-areas">>,
                   [min_risk |-> 6000, limit |-> 50]) }
    \cup { Request("GET", <<"risk-index">>,
                   x @@ [has_min_risk |-> FALSE, min_risk |-> 0, limit |-> 100]) : x \in ReadBoxes }
    \cup { Request("GET", <<"risk-index", "history", b>>, [days |-> d]) :
             b \in BlockIds, d \in {1, 30} }
    \cup { Request("POST", <<"risk-index", "calculate">>, x @@ [block_size |-> 10]) :
             x \in AreaBoxes }

\* the request arrives, is dispatched to the first matching route and served
Serve(p) ==
    /\ req[p].op = "idle"
    /\ clock < MaxClock
    /\ clock' = clock + 1
    /\ \E request \in Requests :
        LET d == Dispatch(request.method, request.path)
            q == request.query
            responses ==
                CASE d.endpoint = "get_risk_block" -> get_risk_block(d.params.block_id)
                  [] d.endpoint = "get_risk_blocks_in_bounds" ->
                         get_risk_blocks_in_bounds_endpoint(q)
                  [] d.endpoint = "get_risk_history" ->
                         get_risk_history_endpoint(d.params.block_id, q.days)
                  [] d.endpoint = "get_risk_index" -> get_risk_index(q)
                  [] d.endpoint = "get_risk_block_details" ->
                         get_risk_block_details(d.params.block_id)
                  [] d.endpoint = "calculate_risk_for_area" -> calculate_risk_for_area(q)
                  [] d.endpoint = "get_high_risk_areas" -> get_high_risk_areas(q)
        IN  \E response \in responses :
              /\ req' = [req EXCEPT ![p] =
                          [ op |-> d.endpoint, pc |-> "done", method |-> request.method,
                            path |-> request.path, query |-> q,
                            status |-> response.status, result |-> response.result ]]
              /\ cache' = response.cache
    /\ UNCHANGED <<comp, blk, sm, nrm, risk_blocks, risk_config, risk_history>>

\* an entry of the cache is older than the ttl of 600 seconds and is dropped
CacheExpire ==
    /\ \E cache_key \in DOMAIN cache :
          cache' = [k \in DOMAIN cache \ {cache_key} |-> cache[k]]
    /\ UNCHANGED <<comp, blk, sm, nrm, risk_blocks, risk_config, req, clock, risk_history>>

\* the cache after GET /risk-index/b1 and GET /risk-index around both blocks
\* were served from the seeded store
WarmCache ==
    (generate_cache_key("risk_block_details", <<"b1">>) :>
         CHOOSE r \in SeedBlocks : r.block_id = "b1")
    @@ (generate_cache_key("risk_index", <<0 - 1, 1, 0 - 1, 2, 0 - 1, 100>>) :> SeedBlocks)

InitService ==
    /\ comp = NoCall
    /\ blk = NoCall
    /\ sm = NoCall
    /\ nrm = NoCall
    /\ risk_blocks \in { {}, SeedBlocks }
    /\ risk_config = <<>>
    /\ req = [p \in Handlers |-> Idle]
    /\ clock = 0
    /\ risk_history = <<>>
    /\ cache \in { <<>> } \cup { c \in {WarmCache} : risk_blocks = SeedBlocks }

NextService ==
    \/ HandlerStep
    \/ \E p \in Handlers : Serve(p)
    \/ CacheExpire
    \/ CreateRiskHistorySnapshot
    \/ BatchInsertRiskHistory

SpecService == InitService /\ [][NextService]_vars

-----------------------------------------------------------------------------
(* Properties *)

InUnit(x) == 0 <= x /\ x <= Unit

Rank(category) ==
    IF category = "low" THEN 0
    ELSE IF category = "moderate" THEN 1
    ELSE IF category = "high" THEN 2
    ELSE 3

\* C1: range invariant.  For valid raw inputs and a config with the default
\* thresholds, whatever its weights, the six factor scores and the composite
\* index returned by calculate_risk_for_block lie in [0,1].
C1_RangeInvariant ==
    blk.called =>
        /\ \A i \in 1..6 : InUnit(ScoresOf(blk.out)[i])
        /\ InUnit(blk.out.composite_risk_index)

\* C3: weight-sum fallback.  With a weight sum outside [0.99, 1.01] the
\* composite is the unweighted mean of the six scores rounded to 3 decimals
\* (within 0.0005 of the mean, a multiple of 0.001); with a sum inside, it is
\* the weighted sum rounded to 3 decimals; the category is the one the
\* thresholds give for the returned index.
C3_WeightSumFallback ==
    comp.called =>
        LET s == comp.scores
            w == WeightsOf(comp.config)
            total == w[1] + w[2] + w[3] + w[4] + w[5] + w[6]
            c == comp.out.composite_risk_index
            cat == comp.out.risk_category
        IN  /\ c % 10 = 0
            /\ IF total < 990 \/ total > 1010
               THEN Abs(6 * c - (s[1] + s[2] + s[3] + s[4] + s[5] + s[6])) <= 30
               ELSE Abs(1000 * c - (s[1] * w[1] + s[2] * w[2] + s[3] * w[3]
                                    + s[4] * w[4] + s[5] * w[5] + s[6] * w[6])) <= 5000
            /\ (cat = "low") = (c < 3000)
            /\ (cat = "moderate") = (3000 <= c /\ c < 5000)
            /\ (cat = "high") = (5000 <= c /\ c < 7000)
            /\ (cat = "critical") = (7000 <= c)

\* C3 witness: weights summing to 0.5 and the scores (1, 0, 0, 0, 0, 0) gave
\* the mean 0.167, not the weighted sum 0.1
C3_Witness ==
    /\ comp.called
    /\ WeightsOf(comp.config) = <<100, 100, 100, 100, 50, 50>>
    /\ comp.scores = <<10000, 0, 0, 0, 0, 0>>
    /\ comp.out = [composite_risk_index |-> 1670, risk_category |-> "low"]

\* C4: category monotonicity.  For fixed weights, raising one factor score
\* while the other five are held never lowers the composite index and never
\* moves the category backward.
C4_CategoryMonotone ==
    [][ ( /\ comp.called /\ comp'.called
          /\ comp'.config = comp.config
          /\ \E i \in 1..6 :
                /\ comp'.scores[i] > comp.scores[i]
                /\ \A j \in (1..6) \ {i} : comp'.scores[j] = comp.scores[j] )
        => /\ comp'.out.composite_risk_index >= comp.out.composite_risk_index
           /\ Rank(comp'.out.risk_category) >= Rank(comp.out.risk_category) ]_vars

InRadius(block) ==
    haversine_distance(sm.target_lat, sm.target_lng, block.lat, block.lng)
        <= 10 * sm.config.spatial_radius_meters

RECURSIVE SumWeights(_)
\* the sum of the decay weights of a list of in-radius neighbors of sm's target
SumWeights(blocks) ==
    IF blocks = <<>> THEN 0
    ELSE DecayWeight(haversine_distance(sm.target_lat, sm.target_lng,
                                        Head(blocks).lat, Head(blocks).lng), sm.config)
         + SumWeights(Tail(blocks))

\* C8: smoothing identity.  With an empty neighbor list apply_spatial_smoothing
\* returns the target index unchanged.
C8_SmoothingIdentity ==
    (sm.called /\ sm.nearby_blocks = <<>>) => sm.out = sm.target_risk

\* C8 witness: the target index 0.1234, which is no multiple of 0.001, came
\* back unchanged from a call with no neighbors
C8_Witness ==
    /\ sm.called
    /\ sm.nearby_blocks = <<>>
    /\ sm.target_risk = 1234
    /\ sm.out = 1234

\* C9: neighbors beyond the radius contribute nothing.  The result is the same
\* as for the list without them, and a non-empty list with no neighbor inside
\* the radius returns the target index unchanged, without an error.
C9_OutOfRadiusIgnored ==
    sm.called =>
        /\ sm.out = apply_spatial_smoothing(sm.target_lat, sm.target_lng, sm.target_risk,
                        SelectSeq(sm.nearby_blocks, InRadius), sm.config)
        /\ (sm.nearby_blocks # <<>> /\ SelectSeq(sm.nearby_blocks, InRadius) = <<>>)
               => sm.out = sm.target_risk

\* the case of C10: one or more neighbors, all inside the radius and all with
\* the same index n above the target's, and a decay factor in (0,1]
C10_Case ==
    /\ sm.called
    /\ sm.nearby_blocks # <<>>
    /\ \A i \in 1..Len(sm.nearby_blocks) :
          /\ InRadius(sm.nearby_blocks[i])
          /\ sm.nearby_blocks[i].composite_risk_index
                 = sm.nearby_blocks[1].composite_risk_index
    /\ sm.nearby_blocks[1].composite_risk_index > sm.target_risk
    /\ 0 < sm.config.spatial_decay_factor
    /\ sm.config.spatial_decay_factor <= Unit

\* C10 as claimed: smoothing pull toward neighbors.  In the case above the
\* result is strictly greater than the target index t and strictly less than
\* the neighbors' index n.
C10_PullStrict ==
    C10_Case =>
        /\ sm.target_risk < sm.out
        /\ sm.out < sm.nearby_blocks[1].composite_risk_index

\* C10 as amended: in the case above the result, a weighted average rounded to
\* 3 decimals, is within 0.0005 of [t, n], is at least t when t is a multiple
\* of 0.001 and at most n when n is, and is strictly between t and n whenever
\* the unrounded average (t + n W) / (1 + W), W the sum of the neighbors'
\* weights, is more than 0.0005 away from both t and n.
C10_PullRounded ==
    C10_Case =>
        LET t == sm.target_risk
            n == sm.nearby_blocks[1].composite_risk_index
            W == SumWeights(sm.nearby_blocks)
        IN  /\ t - 5 <= sm.out /\ sm.out <= n + 5
            /\ (t % 10 = 0) => sm.out >= t
            /\ (n % 10 = 0) => sm.out <= n
            /\ ((n - t) * W > 5 * (Unit + W) /\ (n - t) * Unit > 5 * (Unit + W))
                   => (t < sm.out /\ sm.out < n)

\* C10 witness: the target at 0.1 with three neighbors at 0.9 inside the
\* radius and the default decay 0.5 came out strictly between 0.1 and 0.9
C10_Witness ==
    /\ C10_Case
    /\ sm.target_risk = 1000
    /\ Len(sm.nearby_blocks) = 3
    /\ sm.nearby_blocks[1].composite_risk_index = 9000
    /\ sm.config.spatial_decay_factor = 5000
    /\ 1000 < sm.out /\ sm.out < 9000

\* C2: every stored block's risk_category is the category of its
\* composite_risk_index (low below 0.3, moderate below 0.5, high below 0.7,
\* critical from 0.7), whichever handler wrote the row, PUT included
C2_DerivedCategory ==
    \A r \in risk_blocks :
        r.risk_category =
            IF r.composite_risk_index < 3000 THEN "low"
            ELSE IF r.composite_risk_index < 5000 THEN "moderate"
            ELSE IF r.composite_risk_index < 7000 THEN "high"
            ELSE "critical"

\* C5: when the store rejects exactly one of the N rows of a recalculate-all
\* run, the response is a success report of N-1 updated blocks that names the
\* failed block, and the other N-1 recomputed rows are in the store
C5_BatchPartialFailure ==
    [][ \A p \in Handlers :
          ( /\ req[p].op = "recalculate_all" /\ req[p].pc = "upsert"
            /\ req'[p].pc = "done"
            /\ Cardinality(req'[p].failed) = 1
            /\ Cardinality(req[p].blocks) >= 2 )
          => /\ req'[p].status = 200
             /\ req'[p].blocks_updated = Cardinality(req[p].blocks) - 1
             /\ \A u \in UpdatedBlocks(req[p].blocks, req[p].config, clock) :
                    u.block_id \notin req'[p].failed => u \in risk_blocks' ]_vars

\* C6: a recalculate-all run never overwrites the factor scores that a
\* concurrent recalculation of a block persisted after the run read the block
C6_NoStaleWriteBack ==
    [][ \A p \in Handlers, q \in Handlers :
          ( /\ req[p].op = "recalculate_all" /\ req[p].pc = "upsert"
            /\ req'[p].pc = "done" /\ req'[p].status = 200
            /\ req[q].op = "recalculate" /\ req[q].pc = "done" /\ req[q].status = 200
            /\ req[q].save_to_database
            /\ req[q].result \in risk_blocks
            /\ \E r \in req[p].blocks :
                   r.block_id = req[q].block_id /\ r # req[q].result )
          => \A r \in risk_blocks' :
                 r.block_id = req[q].block_id => ScoresOf(r) = ScoresOf(req[q].result) ]_vars

\* C7: a block id has at most one row, and a recalculation that saves ends
\* with its block stored and without a persistence error, also when another
\* save of the same block id runs at the same time
C7_IdempotentUpsert ==
    /\ \A b \in BlockIds : Cardinality(get_risk_block_by_id(b)) <= 1
    /\ \A p \in Handlers :
          ( req[p].op = "recalculate" /\ req[p].pc = "done" /\ req[p].save_to_database )
          => /\ req[p].status # 500
             /\ req[p].status = 200
                    => Cardinality(get_risk_block_by_id(req[p].block_id)) = 1

\* the indices of the neighbors of sm's list that lie inside the radius
InRadiusIndices ==
    { sm.nearby_blocks[i].composite_risk_index :
        i \in { j \in 1..Len(sm.nearby_blocks) : InRadius(sm.nearby_blocks[j]) } }

C17_NeverThrows ==
    nrm.called => nrm.out # Raised

\* C13: two runs of calculate_risk_for_block on the same block id,
\* coordinates, raw inputs and config yield profiles that are identical in
\* every field, last_calculated_at included.
C13_Idempotent ==
    (blk.called /\ "again" \in DOMAIN blk) => blk.again = blk.out

\* the call of the worked example: the six scores 0.36, 0.158, 0.5, 0.4, 0.3,
\* 0.45 with the default weights 0.25, 0.15, 0.20, 0.15, 0.10, 0.15
C14_Case ==
    /\ comp.called
    /\ comp.scores = <<3600, 1580, 5000, 4000, 3000, 4500>>
    /\ WeightsOf(comp.config) = <<250, 150, 200, 150, 100, 150>>

\* C14 as claimed: the worked example gives composite_risk_index 0.369 and
\* risk_category moderate.
C14_WorkedExample369 ==
    C14_Case => comp.out = [composite_risk_index |-> 3690, risk_category |-> "moderate"]

\* C14 as amended: the worked example gives composite_risk_index 0.371
\* (0.09 + 0.0237 + 0.1 + 0.06 + 0.03 + 0.0675 = 0.3712) and risk_category
\* moderate.
C14_WorkedExample371 ==
    C14_Case => comp.out = [composite_risk_index |-> 3710, risk_category |-> "moderate"]

\* C14 witness: the call of the worked example returned
C14_Witness ==
    /\ C14_Case
    /\ comp.out.composite_risk_index = 3710

\* the category the fixed thresholds give for an index
ThresholdCategory(index) ==
    IF index < 3000 THEN "low"
    ELSE IF index < 5000 THEN "moderate"
    ELSE IF index < 7000 THEN "high"
    ELSE "critical"

\* C12: once a single-block recalculation with spatial smoothing has done its
\* smoothing step, the risk_category of its result is the one the thresholds
\* give for the result's (smoothed) composite_risk_index, and the profile it
\* persists is that result.
C12_SmoothedCategory ==
    [][ \A p \in Handlers :
          ( /\ req'[p].op = "recalculate" /\ req'[p].status = 200
            /\ req'[p].apply_spatial_smoothing
            /\ req'[p].pc \in {"lookup", "persist", "done"} )
          => /\ req'[p].result.risk_category
                    = ThresholdCategory(req'[p].result.composite_risk_index)
             /\ (req[p].pc = "persist" /\ req'[p].pc = "done")
                    => req'[p].result \in risk_blocks' ]_vars

\* C12 witness: a recalculation of b1 with no factor data (index 0.024 under
\* the default weights, low) was smoothed against its neighbor and persisted
\* in the category moderate
C12_Witness ==
    \E p \in Handlers :
        /\ req[p].op = "recalculate" /\ req[p].pc = "done" /\ req[p].status = 200
        /\ req[p].apply_spatial_smoothing /\ req[p].save_to_database
        /\ req[p].result.heat_exposure_score = 2400
        /\ req[p].result.crime_score = 0
        /\ req[p].result.risk_category = "moderate"
        /\ req[p].result \in risk_blocks

\* C15: the rows a recalculate-all run writes hold, with smoothing enabled,
\* the index smoothed against the other blocks the run fetched and the
\* category of that index, and with smoothing disabled the unsmoothed composite.
C15_BatchSmoothing ==
    [][ \A p \in Handlers :
          ( /\ req[p].op = "recalculate_all" /\ req[p].pc = "upsert"
            /\ req'[p].pc = "done" /\ req'[p].status = 200 )
          => \A block \in req[p].blocks :
               LET composite == calculate_composite_risk_index(
                                    ScoresOf(block), req[p].config).composite_risk_index
                   nearby_blocks == SetToSeq({ n \in req[p].blocks :
                                                 n.block_id # block.block_id })
                   expected == IF req[p].apply_spatial_smoothing
                               THEN apply_spatial_smoothing(block.lat, block.lng, composite,
                                                            nearby_blocks, req[p].config)
                               ELSE composite
               IN  \E u \in risk_blocks' :
                       /\ u.block_id = block.block_id
                       /\ u.composite_risk_index = expected
                       /\ u.risk_category = ThresholdCategory(expected) ]_vars

\* C16: no stored profile and no profile returned with success by a
\* single-block recalculation has a factor score or a composite_risk_index
\* outside [0,1].
C16_OutOfRangeSurfaced ==
    /\ \A r \in risk_blocks :
          /\ \A i \in 1..6 : InUnit(ScoresOf(r)[i])
          /\ InUnit(r.composite_risk_index)
    /\ \A p \in Handlers :
          (req[p].op = "recalculate" /\ req[p].pc = "done" /\ req[p].status = 200)
          => /\ \A i \in 1..6 : InUnit(ScoresOf(req[p].result)[i])
             /\ InUnit(req[p].result.composite_risk_index)

\* C18: a single-block recalculation whose latitude is outside [-90, 90] or
\* whose longitude is outside [-180, 180] ends at once with the error 422 and
\* without a profile: no factor is scored, and the step that rejects it
\* leaves the store as it is (no later step of the request exists).
C18_InvalidCoordinate ==
    [][ \A p \in Handlers :
          ( /\ req'[p].op = "recalculate"
            /\ \/ req'[p].lat < 0 - 90000 \/ req'[p].lat > 90000
               \/ req'[p].lng < 0 - 180000 \/ req'[p].lng > 180000 )
          => /\ req'[p].pc = "done"
             /\ req'[p].status = 422
             /\ req'[p].result = <<>>
             /\ req[p] # req'[p] => risk_blocks' = risk_blocks ]_vars

\* C18 witness: a request with the latitude 91 was rejected with 422
C18_Witness ==
    \E p \in Handlers :
        /\ req[p].op = "recalculate"
        /\ req[p].lat = 91000
        /\ req[p].status = 422

\* C19: with no row "default" in risk_config, a single-block recalculation
\* and a recalculate-all run load the config with the weights 0.25, 0.15,
\* 0.20, 0.15, 0.10, 0.15, whose sum 1.0 is within [0.99, 1.01]; the weighted
\* sum of these weights is what they return and write, and they do not fail
\* (a recalculate-all run fails only when the store rejects its rows).
C19_AbsentConfigDefault ==
    [][ \A p \in Handlers :
          LET w == <<250, 150, 200, 150, 100, 150>>
              Weighted(r) == Abs(1000 * r.composite_risk_index
                                 - (r.crime_score * w[1] + r.blight_score * w[2]
                                    + r.emergency_response_score * w[3]
                                    + r.air_quality_score * w[4]
                                    + r.heat_exposure_score * w[5]
                                    + r.traffic_speed_score * w[6])) <= 5000
          IN  ("default" \notin DOMAIN risk_config) =>
                /\ ( /\ req[p].op = "idle" /\ req'[p].op = "recalculate"
                     /\ req'[p].status # 422 )
                   => /\ req'[p].status = 200
                      /\ WeightsOf(req'[p].config) = w
                      /\ 990 <= SumSeq(w) /\ SumSeq(w) <= 1010
                      /\ Weighted(req'[p].result)
                /\ (req[p].op = "recalculate_all" /\ req[p].pc = "config"
                    /\ req'[p].pc = "upsert")
                   => WeightsOf(req'[p].config) = w
                /\ (req[p].op = "recalculate_all" /\ req[p].pc = "upsert"
                    /\ req'[p].pc = "done")
                   => /\ req'[p].status = 500 => req'[p].failed # {}
                      /\ req'[p].status = 200 =>
                            \A b \in req[p].blocks : \E u \in risk_blocks' :
                                u.block_id = b.block_id /\ Weighted(u) ]_vars

\* C19 witness: without a stored config a recalculation with no factor data
\* returned 0.024, the weighted sum of the heat score 0.24 (the mean is 0.04)
C19_Witness ==
    \E p \in Handlers :
        /\ "default" \notin DOMAIN risk_config
        /\ req[p].op = "recalculate" /\ req[p].pc = "done" /\ req[p].status = 200
        /\ req[p].result.heat_exposure_score = 2400
        /\ req[p].result.composite_risk_index = 240

\* C20: a run keeps the config it loaded.  A single-block recalculation never
\* changes its config after loading it, its composite is the one of its
\* factor scores under that config, and its smoothing step uses that config's
\* radius and decay factor; a recalculate-all run writes, for every block, the
\* composite under the one config it loaded.  Updates of the stored config
\* during the run do not matter.
C20_ConfigReadOnly ==
    [][ \A p \in Handlers :
          /\ (req[p].op = "recalculate" /\ req'[p].op = "recalculate")
             => req'[p].config = req[p].config
          /\ (req[p].op = "idle" /\ req'[p].op = "recalculate" /\ req'[p].status = 200)
             => req'[p].result.composite_risk_index
                  = calculate_composite_risk_index(ScoresOf(req'[p].result),
                                                   req'[p].config).composite_risk_index
          /\ (req[p].op = "recalculate" /\ req[p].pc = "smooth" /\ req'[p].pc # "smooth")
             => LET r == req[p]
                    nearby == SetToSeq({ b \in risk_blocks :
                                  /\ b.block_id # r.block_id
                                  /\ Abs(b.lat - r.lat) * 111 <= r.config.spatial_radius_meters
                                  /\ Abs(b.lng - r.lng) * 111 <= r.config.spatial_radius_meters })
                IN  req'[p].result.composite_risk_index
                      = IF nearby = <<>> THEN r.result.composite_risk_index
                        ELSE apply_spatial_smoothing(r.lat, r.lng,
                                 r.result.composite_risk_index, nearby, r.config)
          /\ (req[p].op = "recalculate_all" /\ req[p].pc = "upsert"
              /\ req'[p].pc = "done")
             => /\ req'[p].config = req[p].config
                /\ req'[p].status = 200 =>
                      \A b \in req[p].blocks : \E u \in risk_blocks' :
                          /\ u.block_id = b.block_id
                          /\ u.composite_risk_index
                               = calculate_composite_risk_index(ScoresOf(b),
                                     req[p].config).composite_risk_index ]_vars

\* C20 witness: a recalculation with smoothing is past its smoothing step
\* with a config that is no longer the stored one
C20_Witness ==
    \E p \in Handlers :
        /\ req[p].op = "recalculate" /\ req[p].status = 200
        /\ req[p].apply_spatial_smoothing
        /\ req[p].pc \in {"lookup", "persist", "done"}
        /\ "default" \in DOMAIN risk_config
        /\ req[p].config # LoadConfig("default")

\* C21: risk history is insert-only.  No step of a recalculation, a
\* recalculate-all run, a block update, a read or a snapshot insertion changes
\* or removes a row of risk_history: every row written before the step is
\* there after it, at its place and with its values.
C21_HistoryInsertOnly ==
    [][ /\ Len(risk_history') >= Len(risk_history)
        /\ \A i \in 1..Len(risk_history) : risk_history'[i] = risk_history[i] ]_vars

\* C21 witness: the snapshot of a block is in the history with the index it
\* had, after a later write gave the stored block another index
C21_Witness ==
    /\ risk_history # <<>>
    /\ \E r \in risk_blocks :
          /\ r.block_id = risk_history[1].block_id
          /\ r.last_calculated_at > risk_history[1].snapshot_date
          /\ r.composite_risk_index # risk_history[1].composite_risk_index

\* C22: each of the six normalization thresholds scales its own factor.  Once
\* a factor's scoring function has been called on all the raw inputs of the
\* list under two configs that differ only in the factor's threshold, some
\* input has given two different scores.
C22_ThresholdsUsed ==
    (nrm.called /\ nrm.rest = <<>>) => nrm.differs

\* the score min(1, min(1, 0.6 A + 0.4 P) m) rounded to 3 decimals, where A is
\* the overage of the average speed above the safe speed and P the overage of
\* the 85th-percentile speed above the safe speed plus allowance, both as a
\* fraction of traffic_speed_max_mph - safe, and m is 1.0, 1.3 or 1.6:
\* out is a multiple of 0.001 within 0.0005 of that value
TrafficScoreIs(out, allowance) ==
    LET avg_speed == nrm.args[1]
        p85_speed == nrm.args[2]
        volume == nrm.args[3]
        road == nrm.args[4]
        safe == IF road = "arterial" THEN 35 ELSE IF road = "highway" THEN 55 ELSE 25
        span == nrm.config.traffic_speed_max_mph - safe
        A == IF avg_speed > safe THEN avg_speed - safe ELSE 0
        P == IF p85_speed > safe + allowance THEN p85_speed - safe - allowance ELSE 0
        speed10 == IF 6 * A + 4 * P > 10 * span THEN 10 * span ELSE 6 * A + 4 * P
        m10 == IF volume < 50 THEN 10 ELSE IF volume < 200 THEN 13 ELSE 16
    IN  /\ out % 10 = 0
        /\ IF speed10 * m10 >= 100 * span THEN out = Unit
           ELSE Abs(out * 100 * span - speed10 * m10 * Unit) <= 5 * 100 * span

\* C23 as claimed: calculate_traffic_speed_score returns
\* min(1, min(1, 0.6 A + 0.4 P) m) rounded to 3 decimals with
\* P = max(0, (p85_speed - safe) / (traffic_speed_max_mph - safe)).
C23_TrafficClaimed ==
    (nrm.called /\ nrm.fn = "traffic") => TrafficScoreIs(nrm.out, 0)

\* C23 as amended: the 85th-percentile speed has an allowance of 10 mph,
\* P = max(0, (p85_speed - safe - 10) / (traffic_speed_max_mph - safe)); safe
\* is 25, 35 or 55 mph for residential, arterial or highway roads and 25 mph
\* for any other road type, and traffic_speed_max_mph is above safe.
C23_TrafficAllowance ==
    (nrm.called /\ nrm.fn = "traffic") => TrafficScoreIs(nrm.out, 10)

\* C23 witness: 45 mph on average and 52 mph at the 85th percentile on an
\* arterial road with 150 pedestrians a day score 0.381 (the formula without
\* the allowance gives 0.555)
C23_Witness ==
    /\ nrm.called /\ nrm.fn = "traffic"
    /\ nrm.args = <<45, 52, 150, "arterial">>
    /\ nrm.out = 3810

\* C24: blight score.  For non-negative counts calculate_blight_score returns
\* min(1, (3 abandoned_buildings + 2 code_violations + vacant_lots)
\*        / (6 blight_max_properties)) rounded to 3 decimals (a multiple of
\* 0.001 within 0.0005 of that value); 2 abandoned buildings, 3 vacant lots and
\* 5 code violations with blight_max_properties = 20 score 0.158.
C24_BlightScore ==
    ( /\ nrm.called /\ nrm.fn = "blight"
      /\ nrm.args[1] >= 0 /\ nrm.args[2] >= 0 /\ nrm.args[3] >= 0 )
    => LET abandoned == nrm.args[1]
           vacant == nrm.args[2]
           violations == nrm.args[3]
           num == 3 * abandoned + 2 * violations + vacant
           den == 6 * nrm.config.blight_max_properties
       IN  /\ nrm.out % 10 = 0
           /\ IF num >= den THEN nrm.out = Unit
              ELSE Abs(nrm.out * den - num * Unit) <= 5 * den
           /\ (nrm.args = <<2, 3, 5>> /\ nrm.config.blight_max_properties = 20)
                  => nrm.out = 1580

\* C24 witness: the call of the worked example returned 0.158
C24_Witness ==
    /\ nrm.called /\ nrm.fn = "blight"
    /\ nrm.args = <<2, 3, 5>>
    /\ nrm.config.blight_max_properties = 20
    /\ nrm.out = 1580

\* C25: persistence of a single-block recalculation is optional.  A request
\* with save_to_database = false makes no call that writes: none of its steps
\* changes risk_blocks, it never reaches the lookup or the save, and it ends
\* with its profile and the status 200.  A request with save_to_database =
\* true ends with the status 200 only through its save, and after that step
\* the store holds for its block id exactly one row, the returned profile.
C25_OptionalPersistence ==
    [][ \A p \in Handlers :
          /\ ( /\ req'[p].op = "recalculate" /\ req'[p].status = 200
               /\ ~ req'[p].save_to_database /\ req'[p] # req[p] )
             => /\ risk_blocks' = risk_blocks
                /\ req'[p].pc \in {"smooth", "done"}
                /\ req'[p].result # <<>>
          /\ ( /\ req[p].op = "recalculate" /\ req'[p].op = "idle"
               /\ ~ req[p].save_to_database )
             => risk_blocks' = risk_blocks
          /\ ( /\ req'[p].op = "recalculate" /\ req'[p].status = 200
               /\ req'[p].save_to_database
               /\ req'[p].pc = "done" /\ req[p].pc # "done" )
             => /\ req[p].op = "recalculate" /\ req[p].pc = "persist"
                /\ { r \in risk_blocks' : r.block_id = req'[p].block_id } = { req'[p].result } ]_vars

\* C25 witness: one request without save is done and its profile is not in
\* the store, another request with save is done and its profile is the row of
\* its block
C25_Witness ==
    \E p \in Handlers, q \in Handlers :
        /\ req[p].op = "recalculate" /\ req[p].pc = "done" /\ req[p].status = 200
        /\ ~ req[p].save_to_database
        /\ req[p].result \notin risk_blocks
        /\ req[q].op = "recalculate" /\ req[q].pc = "done" /\ req[q].status = 200
        /\ req[q].save_to_database
        /\ get_risk_block_by_id(req[q].block_id) = { req[q].result }

\* C26: a successful write is visible to later reads.  A GET
\* /risk-index/{block_id} that answers 200 returns the row the store holds for
\* the block when the request is served, and a bounding-box GET /risk-index
\* that answers 200 returns the rows the store then holds inside the box:
\* every profile persisted before the request was served is in the answer, no
\* profile cached before that write.
C26_ReadYourWrites ==
    [][ \A p \in Handlers :
          /\ ( /\ req[p].op = "idle" /\ req'[p].op = "get_risk_block_details"
               /\ req'[p].status = 200 )
             => req'[p].result \in risk_blocks
          /\ ( /\ req[p].op = "idle" /\ req'[p].op = "get_risk_index"
               /\ req'[p].status = 200 )
             => req'[p].result = SelectInBounds(req'[p].query.min_lat, req'[p].query.max_lat,
                                                req'[p].query.min_lng, req'[p].query.max_lng)
      ]_vars

\* C27: every declared GET route is reachable: a GET to
\* /risk-index/blocks/bounds is served by get_risk_blocks_in_bounds and
\* answers the blocks inside the box, and a GET to /risk-index/high-risk-areas
\* is served by get_high_risk_areas; no {block_id} route takes them.
C27_RoutesReachable ==
    [][ \A p \in Handlers :
          /\ ( /\ req[p].op = "idle" /\ "path" \in DOMAIN req'[p] /\ req'[p].method = "GET"
               /\ req'[p].path = <<"risk-index", "blocks", "bounds">> )
             => /\ req'[p].op = "get_risk_blocks_in_bounds"
                /\ req'[p].status = 200
                /\ req'[p].result = SelectInBounds(req'[p].query.lat_min, req'[p].query.lat_max,
                                                   req'[p].query.lng_min, req'[p].query.lng_max)
          /\ ( /\ req[p].op = "idle" /\ "path" \in DOMAIN req'[p] /\ req'[p].method = "GET"
               /\ req'[p].path = <<"risk-index", "high-risk-areas">> )
             => req'[p].op = "get_high_risk_areas"
      ]_vars

DerivedFields == {"composite_risk_index", "risk_category", "last_calculated_at"}

\* a row without its derived fields
KeptFields(r) == [f \in DOMAIN r \ DerivedFields |-> r[f]]

\* C29: recalculate-all changes only the derived fields: each row it read is
\* written back with every field but composite_risk_index, risk_category and
\* last_calculated_at as read; no block id enters or leaves the store; when
\* the store is as the run read it (no writer ran in between), every block
\* keeps its id, coordinates and six factor scores; a refused upsert leaves
\* the store as it was; and
\* blocks_updated is the number of blocks read (0 for an empty store).
C29_DerivedFieldsOnly ==
    [][ \A p \in Handlers :
          /\ ( /\ req[p].op = "recalculate_all" /\ req[p].pc = "upsert"
               /\ req'[p].pc = "done" )
             => /\ { r.block_id : r \in risk_blocks' } = { r.block_id : r \in risk_blocks }
                /\ req'[p].status # 200 => risk_blocks' = risk_blocks
                /\ req'[p].status = 200
                   => /\ req'[p].blocks_updated = Cardinality(req[p].blocks)
                      /\ \A b \in req[p].blocks :
                            \E w \in risk_blocks' :
                               w.block_id = b.block_id /\ KeptFields(w) = KeptFields(b)
                      /\ req[p].blocks = risk_blocks
                         => \A r \in risk_blocks :
                               \E w \in risk_blocks' :
                                  /\ w.block_id = r.block_id
                                  /\ w.lat = r.lat /\ w.lng = r.lng
                                  /\ ScoresOf(w) = ScoresOf(r)
          /\ ( /\ req[p].op = "idle" /\ req'[p].op = "recalculate_all"
               /\ req'[p].pc = "done" )
             => /\ req'[p].blocks = {} /\ req'[p].blocks_updated = 0
                /\ risk_blocks' = risk_blocks
      ]_vars

\* a run that read two blocks is done, reports two, and rewrote a derived
\* field of one of them; both rows keep their other fields as read
C29_Witness ==
    \E p \in Handlers :
       /\ req[p].op = "recalculate_all" /\ req[p].pc = "done" /\ req[p].status = 200
       /\ req[p].blocks_updated = 2 /\ Cardinality(req[p].blocks) = 2
       /\ \E b \in req[p].blocks : b \notin risk_blocks
       /\ \A b \in req[p].blocks :
             \E w \in risk_blocks : w.block_id = b.block_id /\ KeptFields(w) = KeptFields(b)

\* C30: smoothing is a weighted average: for a decay factor in (0,1] and any
\* neighbor list, empty or not, the index returned by apply_spatial_smoothing
\* is within the rounding to 3 decimals (0.0005) of the interval from the
\* least to the greatest of the target's index and the indices of the
\* neighbors inside the radius, and it is in [0,1] whenever the target's index
\* and the indices of all neighbors of the list are in [0,1].
C30_WeightedAverage ==
    ( /\ sm.called
      /\ 0 < sm.config.spatial_decay_factor /\ sm.config.spatial_decay_factor <= Unit )
    => LET idx == InRadiusIndices \cup {sm.target_risk}
           all == { sm.nearby_blocks[i].composite_risk_index : i \in 1..Len(sm.nearby_blocks) }
                      \cup {sm.target_risk}
       IN  /\ sm.out # Raised
           /\ \E x \in idx : x - 5 <= sm.out
           /\ \E x \in idx : sm.out <= x + 5
           /\ (\A x \in all : 0 <= x /\ x <= Unit) => (0 <= sm.out /\ sm.out <= Unit)

\* the target at 0.1234 with a neighbor at 0.101 on the spot and a neighbor
\* at 1.0 outside the radius came out strictly between 0.101 and 0.1234
C30_Witness ==
    /\ sm.called
    /\ sm.target_risk = 1234
    /\ Len(sm.nearby_blocks) = 2
    /\ \E i, j \in 1..2 :
          /\ sm.nearby_blocks[i].composite_risk_index = 1010 /\ InRadius(sm.nearby_blocks[i])
          /\ sm.nearby_blocks[j].composite_risk_index = Unit /\ ~ InRadius(sm.nearby_blocks[j])
    /\ 1010 < sm.out /\ sm.out < 1234

====
